---- MODULE Spec2Model ----
(***************************************************************************)
(* Model of the request fan-out layer of the API proxy                     *)
(* (src/lambda/api/app/routes/*.py), of the image worker                    *)
(* (src/lambda/gen_vto_image: the handler, the VTO, text-to-image and       *)
(* background-replacement operations and their utilities) and of the        *)
(* Cognito pre-sign-up trigger (src/lambda/cognito_triggers/pre_sign_up).   *)
(*                                                                         *)
(* Python values are represented as follows:                               *)
(*   None            the empty tuple <<>>                                  *)
(*   Optional value  <<v>> when set                                        *)
(*   str             a sequence of characters over Chars, so that strip()  *)
(*                   and emptiness are computed, not assumed               *)
(*   float n.m       the integer 10 * n.m (6.5 is 65)                      *)
(***************************************************************************)
EXTENDS Integers, Sequences, FiniteSets, TLC

VARIABLES
    fn_name,          \* VTO_GEN_FUNCTION_NAME, read once at import
    pc,               \* position of the API request handler
    req,              \* the request being handled
    idx,              \* loop variable i of the parallel dispatch loops
    attempts,         \* lambda_client.invoke calls made for req, in order
    dispatch_raised,  \* an exception escaped the invoke_* function
    response,         \* HTTP response of the endpoint
    wpc,              \* position of the VTO worker
    wparams,          \* vto_params of the event being processed
    wmask,            \* mask_image_base64 after the storage read
    wpayload,         \* inference_params built by process_vto_image
    winvocations,     \* number of model invocations made for the event
    wresult,          \* return value of process_vto_image
    widx,             \* loop variable idx of the save loop
    wwrites,          \* save_image_to_s3 calls made for the event, in order
    wresponse,        \* return value of process_vto_request
    wreads,           \* get_image_from_s3_as_base64 calls made for the event
    upc,              \* which worker utility has just been called
    utext,            \* argument of translate_to_english
    uoutcome,         \* outcome of the Converse call it made
    ureturned,        \* its return value
    uraised,          \* an exception left it
    uimage,           \* argument of pil_to_binary_mask, as its array
    umask,            \* its return value, as its array
    gpc,              \* position of the worker in a text-to-image or
                      \* background-replacement event
    gevent,           \* the params dict of the event, with its key
    gunit,            \* position of the event among the submitted units
    greads,           \* get_image_from_s3_as_base64 calls made, in order
    gtranslations,    \* number of translate_to_english calls made
    ginvocations,     \* number of model invocations made
    gimages,          \* images the model returned
    gidx,             \* loop variable idx of the save loop
    gwrites,          \* save_image_to_s3 calls made, in order
    glog,             \* "Ignoring ..." log records written
    gfailed,          \* some collaborator call failed or fell short
    gresponse,        \* return value of the handler
    gprocessed,       \* submitted units the worker has finished with
    store,            \* object names written to the bucket
    gparked,          \* worker instances of other units, between two steps
    gwritten,         \* which unit wrote which object name
    hpc,              \* position of the worker's handler
    hevent,           \* the event the handler was invoked with
    hbranch,          \* the branch of the handler that serves the event
    hresponse,        \* return value of the handler
    spc,              \* position of the pre-sign-up handler
    semail,           \* request.userAttributes.email of its event
    sallowed,         \* ALLOWED_SIGN_UP_EMAIL_DOMAINS_STR, parsed
    sresult           \* what the pre-sign-up handler returned or raised

vars == <<fn_name, pc, req, idx, attempts, dispatch_raised, response,
          wpc, wparams, wmask, wpayload, winvocations, wresult, widx, wwrites,
          wresponse, wreads, upc, utext, uoutcome, ureturned, uraised, uimage, umask,
          gpc, gevent, gunit, greads, gtranslations, ginvocations, gimages,
          gidx, gwrites, glog, gfailed, gresponse, gprocessed, store,
          gparked, gwritten,
          hpc, hevent, hbranch, hresponse, spc, semail, sallowed, sresult>>

apiVars == <<fn_name, pc, req, idx, attempts, dispatch_raised, response>>
workerVars == <<wpc, wparams, wmask, wpayload, winvocations, wresult, widx,
                wwrites, wresponse, wreads>>
utilVars == <<upc, utext, uoutcome, ureturned, uraised, uimage, umask>>
genVars == <<gpc, gevent, gunit, greads, gtranslations, ginvocations, gimages,
             gidx, gwrites, glog, gfailed, gresponse, gprocessed, store, gparked, gwritten>>
handlerVars == <<hpc, hevent, hbranch, hresponse>>
signupVars == <<spc, semail, sallowed, sresult>>

----------------------------------------------------------------------------
(* Bounds *)

MaxNames == 5        \* longest object_names list a caller sends
MaxTextLen == 2      \* longest string a caller sends
MaxWorkerImages == 2 \* most images one VTO event asks for and gets back
MaxPixels == 1       \* most pixels of a mask image
MaxEmailLen == 4     \* longest email address of a sign-up
MaxDomains == 2      \* most entries of the allowed-domain list

(* Program constants *)

MinImages == 1
MaxImages == 5

----------------------------------------------------------------------------
(* Python values *)

None == <<>>
Some(v) == <<v>>
IsNone(o) == o = <<>>
Val(o) == o[1]

Chars == {" ", "x"}

RECURSIVE TextsUpTo(_)
TextsUpTo(n) ==
    IF n = 0 THEN {<<>>}
    ELSE TextsUpTo(n - 1) \cup
         {Append(t, c) : t \in {u \in TextsUpTo(n - 1) : Len(u) = n - 1}, c \in Chars}

Texts == TextsUpTo(MaxTextLen)

RECURSIVE LStrip(_)
LStrip(t) == IF t # <<>> /\ Head(t) = " " THEN LStrip(Tail(t)) ELSE t

RECURSIVE RStrip(_)
RStrip(t) ==
    IF t # <<>> /\ t[Len(t)] = " " THEN RStrip(SubSeq(t, 1, Len(t) - 1)) ELSE t

\* str.strip()
Strip(t) == RStrip(LStrip(t))

\* truthiness of a str
Truthy(t) == t # <<>>

----------------------------------------------------------------------------
(* Requests of the four accept-and-acknowledge endpoints.  The edit        *)
(* endpoint is the router of routes/nova_edit.py; the other three are the   *)
(* routers main.py includes.                                                *)

Ops == {"vto", "background", "edit", "model"}

NOVA2 == "nova2"
DEFAULT_MODEL_ID == "amazon.nova-canvas-v1:0"

\* the pre-allocated output names a caller sends: name k is <<"o", k>>
NamePool(len) == [k \in 1..len |-> <<"o", k>>]

ObjectNameLists == {None} \cup {Some(NamePool(len)) : len \in 0..MaxNames}

\* values a caller may put in a required string field (or leave it out)
FieldTexts == {t \in Texts : Len(t) <= 1}
RequiredFieldValues == {None} \cup {Some(t) : t \in FieldTexts}

MaskTypes == {"GARMENT", "IMAGE", "PROMPT"}

\* number_of_images as sent, before validation
RawCounts == (MinImages - 1)..(MaxImages + 1)

DefaultMaskFields ==
    [mask_type |-> "GARMENT", mask_prompt |-> Some(<<>>),
     mask_image_object_name |-> None]

MaskFieldChoices ==
    [mask_type : MaskTypes,
     mask_prompt : {None, Some(<<" ">>), Some(<<"x">>)},
     mask_image_object_name : {None, Some(<<"x">>)}]

\* cfg_scale and quality as sent by the caller of an endpoint that has them
CfgChoices(op) == IF op = "model" THEN {65, 80} ELSE {65}
QualityChoices(op) == IF op = "model" THEN {"standard", "premium"} ELSE {"premium"}
ModelChoices(op) ==
    CASE op = "vto" -> {DEFAULT_MODEL_ID}
      [] op = "background" -> {DEFAULT_MODEL_ID}
      [] OTHER -> {NOVA2, DEFAULT_MODEL_ID}

\* height as sent by the caller of an endpoint whose schema constrains it
SizeChoices(op) ==
    CASE op = "edit" -> {0, 512, 999}
      [] op = "background" -> {512, 999}
      [] OTHER -> {512}

\* subject: prompt (model, background, edit) or source_image_object_name (vto);
\* group_id also stands for user_id and the other required names, which the
\* schemas check with the same validator, and height for width.
RequestsOf(op) ==
    {[op |-> op, group_id |-> g, subject |-> s, uid |-> u, object_names |-> names,
      number_of_images |-> n, model_id |-> m, cfg_scale |-> c, quality |-> q,
      mask_type |-> mf.mask_type, mask_prompt |-> mf.mask_prompt,
      mask_image_object_name |-> mf.mask_image_object_name, height |-> h] :
        g \in RequiredFieldValues, s \in RequiredFieldValues,
        u \in {None, Some(<<"u">>)}, names \in ObjectNameLists, n \in RawCounts,
        m \in ModelChoices(op), c \in CfgChoices(op), q \in QualityChoices(op),
        h \in SizeChoices(op),
        mf \in IF op = "vto" THEN MaskFieldChoices ELSE {DefaultMaskFields}}

NoRequest ==
    [op |-> "none", group_id |-> None, subject |-> None, uid |-> None,
     object_names |-> None, number_of_images |-> 0, model_id |-> DEFAULT_MODEL_ID,
     cfg_scale |-> 65, quality |-> "premium", mask_type |-> "GARMENT",
     mask_prompt |-> None, mask_image_object_name |-> None, height |-> 512]

----------------------------------------------------------------------------
(* Schema validation *)

\* Field(..., min_length=1) and validate_non_empty_string
validate_non_empty_string(o) ==
    /\ ~IsNone(o)
    /\ Len(Val(o)) >= 1
    /\ Truthy(Val(o))
    /\ Truthy(Strip(Val(o)))

\* the upper bound taken one too far
number_of_images_ok_OffByOne(n) == n >= MinImages /\ n <= MaxImages + 1

\* Field(1, ge=1, le=5)
number_of_images_ok(n) == n >= MinImages /\ n <= MaxImages

validate_mask_dependencies(r) ==
    /\ r.mask_type = "IMAGE" =>
         /\ ~IsNone(r.mask_image_object_name)
         /\ Truthy(Val(r.mask_image_object_name))
         /\ Truthy(Strip(Val(r.mask_image_object_name)))
    /\ r.mask_type = "PROMPT" =>
         /\ ~IsNone(r.mask_prompt)
         /\ Truthy(Val(r.mask_prompt))
         /\ Truthy(Strip(Val(r.mask_prompt)))

NovaVTORequest(r) ==
    /\ validate_non_empty_string(r.group_id)
    /\ validate_non_empty_string(r.subject)
    /\ number_of_images_ok(r.number_of_images)
    /\ validate_mask_dependencies(r)

VALID_DIMENSIONS == {256, 512, 768, 1024, 1280, 1536, 1792, 2048}

\* @field_validator("height", "width") of BackgroundReplacementRequest
validate_dimensions(v) == v \in VALID_DIMENSIONS

\* Field(512, gt=0)
positive_dimension(v) == v > 0

BackgroundReplacementRequest(r) ==
    /\ validate_non_empty_string(r.group_id)
    /\ validate_non_empty_string(r.subject)
    /\ number_of_images_ok(r.number_of_images)
    /\ validate_dimensions(r.height)

NovaEditRequest(r) ==
    /\ validate_non_empty_string(r.group_id)
    /\ validate_non_empty_string(r.subject)
    /\ number_of_images_ok(r.number_of_images)
    /\ positive_dimension(r.height)

\* app/routes/schemas/nova_model.py is not among the sources
NovaModelRequest(r) ==
    /\ validate_non_empty_string(r.group_id)
    /\ validate_non_empty_string(r.subject)
    /\ number_of_images_ok(r.number_of_images)

SchemaValid(r) ==
    CASE r.op = "vto" -> NovaVTORequest(r)
      [] r.op = "background" -> BackgroundReplacementRequest(r)
      [] r.op = "edit" -> NovaEditRequest(r)
      [] OTHER -> NovaModelRequest(r)

----------------------------------------------------------------------------
(* Dispatch: payload of one unit of work.  Fields that a payload copies    *)
(* from the request and that no check or branch of the worker reads         *)
(* (height, width, date_folder, the styling and preserve_* fields, seed)    *)
(* are left out.                                                            *)

\* request.object_names[i] raises TypeError (None) or IndexError (i too large)
CanIndex(r, i) == ~IsNone(r.object_names) /\ i < Len(Val(r.object_names))

\* the per-image unit carrying the first output name whatever its position
nova2_parallel_payload_FirstName(r, i) ==
    [key |-> "text_to_image_params", prompt |-> r.subject, model_id |-> r.model_id,
     number_of_images |-> 1,
     object_names |-> Some(<<Val(r.object_names)[1]>>),
     image_index |-> i]

\* payload built by the loop body of invoke_nova2_parallel at position i
nova2_parallel_payload(r, i) ==
    [key |-> "text_to_image_params", prompt |-> r.subject, model_id |-> r.model_id,
     number_of_images |-> 1,
     object_names |-> Some(<<Val(r.object_names)[i + 1]>>),
     image_index |-> i]

\* payload built by the loop body of invoke_nova2_parallel_edit at position i
nova2_parallel_edit_payload(r, i) ==
    [key |-> "image_edit_params", prompt |-> r.subject, model_id |-> r.model_id,
     number_of_images |-> 1,
     object_names |-> Some(<<Val(r.object_names)[i + 1]>>),
     image_index |-> i]

\* the aggregate unit built like a per-image unit
nova_canvas_single_payload_OneImage(r) ==
    [key |-> "text_to_image_params", prompt |-> r.subject, model_id |-> r.model_id,
     cfg_scale |-> r.cfg_scale, quality |-> r.quality,
     number_of_images |-> 1,
     object_names |-> IF CanIndex(r, 0) THEN Some(<<Val(r.object_names)[1]>>)
                      ELSE r.object_names]

nova_canvas_single_payload(r) ==
    [key |-> "text_to_image_params", prompt |-> r.subject, model_id |-> r.model_id,
     cfg_scale |-> r.cfg_scale, quality |-> r.quality,
     number_of_images |-> r.number_of_images, object_names |-> r.object_names]

vto_payload(r) ==
    [key |-> "vto_params", source_image_object_name |-> r.subject,
     mask_image_object_name |-> r.mask_image_object_name,
     mask_type |-> r.mask_type,
     mask_prompt |-> IF IsNone(r.mask_prompt) \/ ~Truthy(Val(r.mask_prompt))
                     THEN <<>> ELSE Val(r.mask_prompt),
     number_of_images |-> r.number_of_images, quality |-> r.quality,
     cfg_scale |-> r.cfg_scale, object_names |-> r.object_names]

\* input_image_object_name is one of the required names group_id stands for
background_replacement_payload(r) ==
    [key |-> "replace_background_params", prompt |-> r.subject,
     input_image_object_name |-> r.group_id,
     mask_image_object_name |-> r.mask_image_object_name,
     model_id |-> r.model_id, cfg_scale |-> r.cfg_scale,
     number_of_images |-> r.number_of_images, quality |-> r.quality,
     object_names |-> r.object_names]

\* if not VTO_GEN_FUNCTION_NAME
Unconfigured(name) == IsNone(name) \/ ~Truthy(Val(name))

\* the model family test left out of the text-to-image dispatcher
IsParallel_EditOnly(r) == r.op = "edit"

\* which requests take the per-image loop
IsParallel(r) ==
    \/ r.op = "edit"
    \/ r.op = "model" /\ r.model_id = NOVA2

ParallelPayload(r, i) ==
    IF r.op = "edit" THEN nova2_parallel_edit_payload(r, i)
    ELSE nova2_parallel_payload(r, i)

SinglePayload(r) ==
    CASE r.op = "vto" -> vto_payload(r)
      [] r.op = "background" -> background_replacement_payload(r)
      [] OTHER -> nova_canvas_single_payload(r)

----------------------------------------------------------------------------
(* Responses *)

ValidationError == [status_code |-> 422, status |-> "error",
                    request_id |-> None, object_names |-> None]
InternalError == [status_code |-> 500, status |-> "error",
                  request_id |-> None, object_names |-> None]
Accepted(r) == [status_code |-> 200, status |-> "accepted",
                request_id |-> r.uid, object_names |-> r.object_names]
NoResponse == [status_code |-> 0, status |-> "none",
               request_id |-> None, object_names |-> None]

\* request_id: str of the response model rejects None; the handler's
\* except Exception turns the ValidationError into HTTPException(500)
NovaVTOResponse(r) == IF IsNone(r.uid) THEN InternalError ELSE Accepted(r)
BackgroundReplacementResponse(r) == IF IsNone(r.uid) THEN InternalError ELSE Accepted(r)
NovaEditResponse(r) == IF IsNone(r.uid) THEN InternalError ELSE Accepted(r)
\* app/routes/schemas/nova_model.py is not among the sources
NovaModelResponse(r) == IF IsNone(r.uid) THEN InternalError ELSE Accepted(r)

BuildResponse(r) ==
    CASE r.op = "vto" -> NovaVTOResponse(r)
      [] r.op = "background" -> BackgroundReplacementResponse(r)
      [] r.op = "edit" -> NovaEditResponse(r)
      [] OTHER -> NovaModelResponse(r)

----------------------------------------------------------------------------
(* API request handler *)

\* FastAPI validates the body against the request schema before it calls
\* the endpoint function; a failure is answered 422 without calling it.
Receive(r) ==
    /\ pc = "idle"
    /\ req' = r
    /\ idx' = 0
    /\ attempts' = <<>>
    /\ dispatch_raised' = FALSE
    /\ IF SchemaValid(r)
       THEN pc' = "handler" /\ response' = NoResponse
       ELSE pc' = "done" /\ response' = ValidationError
    /\ UNCHANGED fn_name
    /\ UNCHANGED <<workerVars, utilVars, genVars, handlerVars, signupVars>>

\* the configuration check left out
dispatch_entry_NoConfigCheck(name, r) ==
    IF IsParallel(r) THEN "loop" ELSE "single"

\* entry of invoke_*: the configuration check and the family choice
dispatch_entry(name, r) ==
    IF Unconfigured(name) THEN "respond"
    ELSE IF IsParallel(r) THEN "loop" ELSE "single"

EnterDispatch ==
    /\ pc = "handler"
    /\ pc' = dispatch_entry(fn_name, req)
    /\ UNCHANGED <<fn_name, req, idx, attempts, dispatch_raised, response>>
    /\ UNCHANGED <<workerVars, utilVars, genVars, handlerVars, signupVars>>

\* try/except around lambda_client.invoke inside the loop: the exception is
\* logged and the loop goes on
after_invoke(raises) == "loop"

\* except Exception of invoke_*: an exception raised while the payload of a
\* unit is built is logged and the function returns normally
escapes_invoke(raised) == FALSE

\* the unit whose submission raised submitted again
next_index_RetryFailed(i, raises) == IF raises THEN i ELSE i + 1

\* for i in range(number_of_images): the next i, whatever the invocation did
next_index(i, raises) == i + 1

\* one iteration of for i in range(number_of_images): build the payload
\* (an exception here leaves the loop), then invoke
LoopIteration(raises) ==
    /\ pc = "loop"
    /\ idx < req.number_of_images
    /\ IF CanIndex(req, idx)
       THEN /\ attempts' = Append(attempts,
                   [payload |-> ParallelPayload(req, idx), ok |-> ~raises])
            /\ idx' = next_index(idx, raises)
            /\ pc' = after_invoke(raises)
            /\ dispatch_raised' = dispatch_raised
       ELSE /\ raises = FALSE
            /\ attempts' = attempts
            /\ idx' = idx
            /\ pc' = "respond"
            /\ dispatch_raised' = escapes_invoke(TRUE)
    /\ UNCHANGED <<fn_name, req, response>>
    /\ UNCHANGED <<workerVars, utilVars, genVars, handlerVars, signupVars>>

LoopExit ==
    /\ pc = "loop"
    /\ idx >= req.number_of_images
    /\ pc' = "respond"
    /\ UNCHANGED <<fn_name, req, idx, attempts, dispatch_raised, response>>
    /\ UNCHANGED <<workerVars, utilVars, genVars, handlerVars, signupVars>>

\* the one invocation of the aggregate family, VTO and background replacement
SingleSubmit(raises) ==
    /\ pc = "single"
    /\ attempts' = Append(attempts, [payload |-> SinglePayload(req), ok |-> ~raises])
    /\ pc' = "respond"
    /\ UNCHANGED <<fn_name, req, idx, dispatch_raised, response>>
    /\ UNCHANGED <<workerVars, utilVars, genVars, handlerVars, signupVars>>

\* return XxxResponse(...) inside the endpoint's try
Respond ==
    /\ pc = "respond"
    /\ response' = IF dispatch_raised THEN InternalError ELSE BuildResponse(req)
    /\ pc' = "done"
    /\ UNCHANGED <<fn_name, req, idx, attempts, dispatch_raised>>
    /\ UNCHANGED <<workerVars, utilVars, genVars, handlerVars, signupVars>>

\* the execution context of the request ends
Finish ==
    /\ pc = "done"
    /\ pc' = "idle"
    /\ req' = NoRequest
    /\ idx' = 0
    /\ attempts' = <<>>
    /\ dispatch_raised' = FALSE
    /\ response' = NoResponse
    /\ UNCHANGED fn_name
    /\ UNCHANGED <<workerVars, utilVars, genVars, handlerVars, signupVars>>

ReceiveRequest ==
    pc = "idle" /\ \E op \in Ops : \E r \in RequestsOf(op) : Receive(r)

ApiNext ==
    \/ ReceiveRequest
    \/ EnterDispatch
    \/ \E raises \in BOOLEAN : LoopIteration(raises)
    \/ LoopExit
    \/ \E raises \in BOOLEAN : SingleSubmit(raises)
    \/ Respond
    \/ Finish

ApiInit ==
    /\ fn_name \in {None, Some(<<>>), Some(<<"f">>)}
    /\ pc = "idle"
    /\ req = NoRequest
    /\ idx = 0
    /\ attempts = <<>>
    /\ dispatch_raised = FALSE
    /\ response = NoResponse

----------------------------------------------------------------------------
(* VTO worker: translation and payload composition *)

EmptyDict == [k \in {} |-> k]

\* truthiness of an Optional[str]
OptTruthy(o) == ~IsNone(o) /\ Truthy(Val(o))

\* remote: None when the remote call raised or returned no text item,
\* else the text item it returned
translate_to_english(text, remote) ==
    IF IsNone(remote) THEN text ELSE Strip(Val(remote))

\* the whitespace test left out
prompt_wins_NoStrip(mask_prompt) == Truthy(mask_prompt)

\* if mask_prompt and mask_prompt.strip()
prompt_wins(mask_prompt) == Truthy(mask_prompt) /\ Truthy(Strip(mask_prompt))

actual_mask_type(mask_type, mask_prompt) ==
    IF prompt_wins(mask_prompt) THEN "PROMPT" ELSE mask_type

processed_mask_prompt(mask_prompt, remote) ==
    IF prompt_wins(mask_prompt) THEN translate_to_english(mask_prompt, remote)
    ELSE mask_prompt

prompt_based_mask(p, remote) ==
    [maskPrompt |-> processed_mask_prompt(p.mask_prompt, remote)]
    @@ (IF p.mask_shape_prompt # "" /\ p.mask_shape_prompt # "DEFAULT"
        THEN [maskShape |-> p.mask_shape_prompt] ELSE EmptyDict)

garment_styling(p) ==
    (IF OptTruthy(p.long_sleeve_style)
     THEN [longSleeveStyle |-> Val(p.long_sleeve_style)] ELSE EmptyDict)
    @@ (IF OptTruthy(p.tucking_style)
        THEN [tuckingStyle |-> Val(p.tucking_style)] ELSE EmptyDict)
    @@ (IF OptTruthy(p.outer_layer_style)
        THEN [outerLayerStyle |-> Val(p.outer_layer_style)] ELSE EmptyDict)

\* the styling sub-object attached without the emptiness test
garment_based_mask_StylingAlways(p) ==
    [garmentClass |-> p.garment_class, garmentStyling |-> garment_styling(p)]
    @@ (IF p.mask_shape # "" /\ p.mask_shape # "DEFAULT"
        THEN [maskShape |-> p.mask_shape] ELSE EmptyDict)

garment_based_mask(p) ==
    [garmentClass |-> p.garment_class]
    @@ (IF garment_styling(p) # EmptyDict
        THEN [garmentStyling |-> garment_styling(p)] ELSE EmptyDict)
    @@ (IF p.mask_shape # "" /\ p.mask_shape # "DEFAULT"
        THEN [maskShape |-> p.mask_shape] ELSE EmptyDict)

mask_exclusions(p) ==
    (IF p.preserve_body_pose # "" /\ p.preserve_body_pose # "DEFAULT"
     THEN [preserveBodyPose |-> p.preserve_body_pose] ELSE EmptyDict)
    @@ (IF p.preserve_hands # "" /\ p.preserve_hands # "DEFAULT"
        THEN [preserveHands |-> p.preserve_hands] ELSE EmptyDict)
    @@ (IF p.preserve_face # "" /\ p.preserve_face # "DEFAULT"
        THEN [preserveFace |-> p.preserve_face] ELSE EmptyDict)

\* cfgScale written without the comparison with 3.0
image_gen_config_CfgAlways(p) ==
    (IF p.number_of_images # 1
     THEN [numberOfImages |-> p.number_of_images] ELSE EmptyDict)
    @@ (IF p.quality # "standard" THEN [quality |-> p.quality] ELSE EmptyDict)
    @@ [cfgScale |-> p.cfg_scale]
    @@ (IF p.seed # -1 THEN [seed |-> p.seed] ELSE EmptyDict)

image_gen_config(p) ==
    (IF p.number_of_images # 1
     THEN [numberOfImages |-> p.number_of_images] ELSE EmptyDict)
    @@ (IF p.quality # "standard" THEN [quality |-> p.quality] ELSE EmptyDict)
    @@ (IF p.cfg_scale # 30 THEN [cfgScale |-> p.cfg_scale] ELSE EmptyDict)
    @@ (IF p.seed # -1 THEN [seed |-> p.seed] ELSE EmptyDict)

\* the IMAGE branch going on without a mask
image_mask_missing_FallThrough(p, mask) == FALSE

\* the IMAGE branch returns an error instead of attaching a mask
image_mask_missing(p, mask) ==
    actual_mask_type(p.mask_type, p.mask_prompt) = "IMAGE" /\ ~OptTruthy(mask)

\* the garment branch taken whenever GARMENT was declared, prompt or not
virtual_try_on_params_DeclaredGarment(p, mask, remote) ==
    LET actual == actual_mask_type(p.mask_type, p.mask_prompt) IN
    [sourceImage |-> "source", referenceImage |-> "reference", maskType |-> actual]
    @@ (IF p.return_mask THEN [returnMask |-> TRUE] ELSE EmptyDict)
    @@ (IF actual = "PROMPT"
        THEN [promptBasedMask |-> prompt_based_mask(p, remote)] ELSE EmptyDict)
    @@ (IF p.mask_type = "GARMENT"
        THEN [garmentBasedMask |-> garment_based_mask(p)] ELSE EmptyDict)
    @@ (IF actual = "IMAGE" /\ OptTruthy(mask)
        THEN [imageBasedMask |-> [maskImage |-> "binary_mask"]] ELSE EmptyDict)

\* virtualTryOnParams as it stands when the mask-type branches are left
virtual_try_on_params(p, mask, remote) ==
    LET actual == actual_mask_type(p.mask_type, p.mask_prompt) IN
    [sourceImage |-> "source", referenceImage |-> "reference", maskType |-> actual]
    @@ (IF p.return_mask THEN [returnMask |-> TRUE] ELSE EmptyDict)
    @@ (CASE actual = "PROMPT" -> [promptBasedMask |-> prompt_based_mask(p, remote)]
          [] actual = "GARMENT" -> [garmentBasedMask |-> garment_based_mask(p)]
          [] actual = "IMAGE" /\ OptTruthy(mask) ->
                [imageBasedMask |-> [maskImage |-> "binary_mask"]]
          [] OTHER -> EmptyDict)

\* inference_params as passed to generate_vto_images
inference_params(p, mask, remote) ==
    [taskType |-> "VIRTUAL_TRY_ON",
     virtualTryOnParams |->
        virtual_try_on_params(p, mask, remote)
        @@ (IF mask_exclusions(p) # EmptyDict
            THEN [maskExclusions |-> mask_exclusions(p)] ELSE EmptyDict)
        @@ (IF OptTruthy(p.merge_style)
            THEN [mergeStyle |-> Val(p.merge_style)] ELSE EmptyDict)]
    @@ (IF image_gen_config(p) # EmptyDict
        THEN [imageGenerationConfig |-> image_gen_config(p)] ELSE EmptyDict)

----------------------------------------------------------------------------
(* VTO worker: events *)

MaskParamChoices ==
    [mask_type : MaskTypes, mask_prompt : Texts,
     mask_image_object_name : {None, Some(<<"x">>)},
     mask_shape : {"DEFAULT", "CONTOUR"},
     mask_shape_prompt : {"DEFAULT", "CONTOUR"}]

StylingChoices ==
    [long_sleeve_style : {None, Some(<<"x">>)},
     tucking_style : {None, Some(<<"x">>)},
     outer_layer_style : {None, Some(<<"x">>)}]

\* output names a caller sends with one name at every position
RepeatedNames(len) == [k \in 1..len |-> <<"o", 1>>]

\* every image saved under the first name
save_key_FirstName(object_names, i) == object_names[1]

\* s3_key = object_names[idx]
save_key(object_names, i) == object_names[i + 1]

\* the remaining fields of vto_params as process_vto_request defaults them
RestDefaults ==
    [preserve_body_pose |-> "DEFAULT", preserve_hands |-> "DEFAULT",
     preserve_face |-> "DEFAULT", merge_style |-> None, return_mask |-> FALSE,
     number_of_images |-> 1, quality |-> "standard", cfg_scale |-> 30,
     seed |-> -1, object_names |-> Some(NamePool(1))]

\* the remaining fields of vto_params: the defaults, each generation and
\* exclusion field set on its own, what the API sends for a request that
\* sets none of them, and an event with every one of them set; with and
\* without output names, and with a name repeated
RestChoices ==
    {RestDefaults,
     [RestDefaults EXCEPT !.number_of_images = MaxWorkerImages],
     [RestDefaults EXCEPT !.quality = "premium"],
     [RestDefaults EXCEPT !.cfg_scale = 65],
     [RestDefaults EXCEPT !.seed = 7],
     [RestDefaults EXCEPT !.preserve_hands = "OFF"],
     [RestDefaults EXCEPT !.number_of_images = MaxWorkerImages,
                          !.object_names = Some(RepeatedNames(MaxWorkerImages))],
     [RestDefaults EXCEPT !.quality = "premium", !.cfg_scale = 65,
                          !.object_names = None],
     [preserve_body_pose |-> "ON", preserve_hands |-> "OFF",
      preserve_face |-> "ON", merge_style |-> Some(<<"x">>),
      return_mask |-> TRUE, number_of_images |-> MaxWorkerImages,
      quality |-> "premium", cfg_scale |-> 65, seed |-> 7,
      object_names |-> Some(NamePool(MaxWorkerImages))]}

VtoParams ==
    {[mask_type |-> m.mask_type, mask_prompt |-> m.mask_prompt,
      mask_image_object_name |-> m.mask_image_object_name,
      mask_shape |-> m.mask_shape, mask_shape_prompt |-> m.mask_shape_prompt,
      garment_class |-> "UPPER_BODY",
      long_sleeve_style |-> g.long_sleeve_style, tucking_style |-> g.tucking_style,
      outer_layer_style |-> g.outer_layer_style,
      preserve_body_pose |-> r.preserve_body_pose,
      preserve_hands |-> r.preserve_hands, preserve_face |-> r.preserve_face,
      merge_style |-> r.merge_style, return_mask |-> r.return_mask,
      number_of_images |-> r.number_of_images, quality |-> r.quality,
      cfg_scale |-> r.cfg_scale, seed |-> r.seed, object_names |-> r.object_names] :
        m \in MaskParamChoices, g \in StylingChoices, r \in RestChoices}

NoParams ==
    [mask_type |-> "GARMENT", mask_prompt |-> <<>>, mask_image_object_name |-> None,
     mask_shape |-> "DEFAULT", mask_shape_prompt |-> "DEFAULT",
     garment_class |-> "UPPER_BODY", long_sleeve_style |-> None,
     tucking_style |-> None, outer_layer_style |-> None,
     preserve_body_pose |-> "DEFAULT", preserve_hands |-> "DEFAULT",
     preserve_face |-> "DEFAULT", merge_style |-> None, return_mask |-> FALSE,
     number_of_images |-> 1, quality |-> "standard", cfg_scale |-> 30, seed |-> -1,
     object_names |-> None]

\* text items the translation model may return
RemoteTexts == {None} \cup {Some(t) : t \in Texts}

WorkerCompleted == [statusCode |-> 200, status |-> "completed"]
WorkerFailed == [statusCode |-> 500, status |-> "failed"]
NoWorkerResponse == [statusCode |-> 0, status |-> "none"]

NoResult == [kind |-> "none", images |-> 0]
ErrorResult == [kind |-> "error", images |-> 0]
ImagesResult(k) == [kind |-> "images", images |-> k]

----------------------------------------------------------------------------
(* VTO worker: process_vto_request and process_vto_image *)

WReceive(p) ==
    /\ wpc = "idle"
    /\ wparams' = p
    /\ wpc' = "load"
    /\ UNCHANGED <<wmask, wpayload, winvocations, wresult, widx, wwrites, wresponse,
                   wreads>>
    /\ UNCHANGED <<apiVars, utilVars, genVars, handlerVars, signupVars>>

\* a failed read of the reference image only logged, like that of the mask
required_image_missing_SourceOnly(source_ok, reference_ok) == ~source_ok

\* if not source_image_base64 / if not reference_image_base64
required_image_missing(source_ok, reference_ok) == ~source_ok \/ ~reference_ok

\* the three storage reads of process_vto_request
WLoadImages(source_ok, reference_ok, mask_ok) ==
    /\ wpc = "load"
    /\ IF required_image_missing(source_ok, reference_ok)
       THEN /\ wresponse' = WorkerFailed
            /\ wpc' = "done"
            /\ wmask' = wmask
       ELSE /\ wmask' = IF OptTruthy(wparams.mask_image_object_name) /\ mask_ok
                        THEN Some(<<"x">>) ELSE None
            /\ wpc' = "compose"
            /\ wresponse' = wresponse
    /\ wreads' =
         IF ~source_ok
         THEN <<[name |-> "source", required |-> TRUE, ok |-> FALSE]>>
         ELSE IF ~reference_ok
         THEN <<[name |-> "source", required |-> TRUE, ok |-> TRUE],
                [name |-> "reference", required |-> TRUE, ok |-> FALSE]>>
         ELSE <<[name |-> "source", required |-> TRUE, ok |-> TRUE],
                [name |-> "reference", required |-> TRUE, ok |-> TRUE]>>
              \o (IF OptTruthy(wparams.mask_image_object_name)
                  THEN <<[name |-> "mask", required |-> FALSE, ok |-> mask_ok]>>
                  ELSE <<>>)
    /\ UNCHANGED <<wparams, wpayload, winvocations, wresult, widx, wwrites>>
    /\ UNCHANGED <<apiVars, utilVars, genVars, handlerVars, signupVars>>

\* process_vto_image up to the call of generate_vto_images
WCompose(remote, decode_ok) ==
    /\ wpc = "compose"
    /\ IF image_mask_missing(wparams, wmask)
       THEN /\ wpayload' = [taskType |-> "VIRTUAL_TRY_ON",
                            virtualTryOnParams |->
                                virtual_try_on_params(wparams, None, remote)]
            /\ wresult' = ErrorResult
            /\ wpc' = "return"
       ELSE IF actual_mask_type(wparams.mask_type, wparams.mask_prompt) = "IMAGE"
               /\ ~decode_ok
       THEN /\ wpayload' = [taskType |-> "VIRTUAL_TRY_ON",
                            virtualTryOnParams |->
                                virtual_try_on_params(wparams, None, remote)]
            /\ wresult' = ErrorResult
            /\ wpc' = "return"
       ELSE /\ wpayload' = inference_params(wparams, wmask, remote)
            /\ wresult' = wresult
            /\ wpc' = "invoke"
    /\ UNCHANGED <<wparams, wmask, winvocations, widx, wwrites, wresponse, wreads>>
    /\ UNCHANGED <<apiVars, utilVars, genVars, handlerVars, signupVars>>

\* generate_vto_images: returned = -1 when invoke_model raises, else the
\* number of images in the response body
WInvoke(returned) ==
    /\ wpc = "invoke"
    /\ winvocations' = winvocations + 1
    /\ IF returned < 0
       THEN wresult' = ErrorResult /\ wpc' = "return"
       ELSE /\ wresult' = ImagesResult(returned)
            /\ wpc' = IF returned > 0 THEN "save" ELSE "return"
    /\ widx' = 0
    /\ UNCHANGED <<wparams, wmask, wpayload, wwrites, wresponse, wreads>>
    /\ UNCHANGED <<apiVars, utilVars, genVars, handlerVars, signupVars>>

\* one iteration of for idx, image_base64 in enumerate(images)
WSaveImage(saved) ==
    /\ wpc = "save"
    /\ widx < wresult.images
    /\ IF IsNone(wparams.object_names)
       THEN /\ wresult' = ErrorResult
            /\ wpc' = "return"
            /\ UNCHANGED <<widx, wwrites>>
       ELSE /\ wwrites' = IF widx < Len(Val(wparams.object_names))
                          THEN Append(wwrites,
                                 [key |-> save_key(Val(wparams.object_names), widx),
                                  image |-> widx, ok |-> saved])
                          ELSE wwrites
            /\ widx' = widx + 1
            /\ wpc' = IF widx + 1 < wresult.images THEN "save" ELSE "return"
            /\ wresult' = wresult
    /\ UNCHANGED <<wparams, wmask, wpayload, winvocations, wresponse, wreads>>
    /\ UNCHANGED <<apiVars, utilVars, genVars, handlerVars, signupVars>>

\* process_vto_request after process_vto_image has returned; search_flag is
\* not a key of the payload the API builds, so no tags are generated
WReturn ==
    /\ wpc = "return"
    /\ wresponse' = WorkerCompleted
    /\ wpc' = "done"
    /\ UNCHANGED <<wparams, wmask, wpayload, winvocations, wresult, widx, wwrites,
                   wreads>>
    /\ UNCHANGED <<apiVars, utilVars, genVars, handlerVars, signupVars>>

WFinish ==
    /\ wpc = "done"
    /\ wpc' = "idle"
    /\ wparams' = NoParams
    /\ wmask' = None
    /\ wpayload' = EmptyDict
    /\ winvocations' = 0
    /\ wresult' = NoResult
    /\ widx' = 0
    /\ wwrites' = <<>>
    /\ wresponse' = NoWorkerResponse
    /\ wreads' = <<>>
    /\ UNCHANGED <<apiVars, utilVars, genVars, handlerVars, signupVars>>

WorkerInit ==
    /\ wpc = "idle"
    /\ wparams = NoParams
    /\ wmask = None
    /\ wpayload = EmptyDict
    /\ winvocations = 0
    /\ wresult = NoResult
    /\ widx = 0
    /\ wwrites = <<>>
    /\ wresponse = NoWorkerResponse
    /\ wreads = <<>>

ReceiveEvent == wpc = "idle" /\ \E p \in VtoParams : WReceive(p)

WorkerNext ==
    \/ ReceiveEvent
    \/ \E s, r, m \in BOOLEAN : WLoadImages(s, r, m)
    \/ \E remote \in RemoteTexts, d \in BOOLEAN : WCompose(remote, d)
    \/ \E returned \in -1..MaxWorkerImages : WInvoke(returned)
    \/ \E saved \in BOOLEAN : WSaveImage(saved)
    \/ WReturn
    \/ WFinish

----------------------------------------------------------------------------
(* Worker utilities: translate_to_english and pil_to_binary_mask *)

\* outcomes of BEDROCK_CLIENT.converse: the call raises, or returns a response
ConverseRaised == [raised |-> TRUE, response |-> EmptyDict]
ConverseReturned(resp) == [raised |-> FALSE, response |-> resp]

ConverseResponses ==
    {EmptyDict,
     [output |-> EmptyDict],
     [output |-> [message |-> EmptyDict]],
     [output |-> [message |-> [content |-> <<>>]]],
     [output |-> [message |-> [content |-> <<[image |-> <<"b">>]>>]]]}
    \cup {[output |-> [message |-> [content |-> <<[text |-> t]>>]]] : t \in Texts}

ConverseOutcomes == {ConverseRaised} \cup {ConverseReturned(r) : r \in ConverseResponses}

\* an exception is raised inside the try block: by the remote call, or by
\* response["output"]["message"]["content"] when the message has no content
translate_try_raises(o) ==
    \/ o.raised
    \/ /\ "output" \in DOMAIN o.response
       /\ "message" \in DOMAIN o.response.output
       /\ "content" \notin DOMAIN o.response.output.message

\* only botocore errors caught
translate_catches_ClientErrorOnly(o) == o.raised

\* except Exception
translate_catches(o) == TRUE

\* the text item the function returns stripped, None when it takes one of the
\* two "returning original text" paths
converse_text(o) ==
    IF translate_try_raises(o) THEN None
    ELSE IF "output" \in DOMAIN o.response /\ "message" \in DOMAIN o.response.output
    THEN LET content == o.response.output.message.content IN
         IF content # <<>> /\ Len(content) > 0 /\ "text" \in DOMAIN content[1]
         THEN Some(content[1].text) ELSE None
    ELSE None

\* channel values around the threshold and at the ends of uint8
PixelValues == {0, 127, 128, 129, 255}

\* np.array(pil_image): ndim 2 (modes L, P) with one value per pixel, or
\* ndim 3 with 2 (LA), 3 (RGB) or 4 (RGBA, CMYK) values per pixel
RECURSIVE PixelsOf(_)
PixelsOf(channels) ==
    IF channels = 0 THEN {<<>>}
    ELSE {Append(px, v) : px \in PixelsOf(channels - 1), v \in PixelValues}

RECURSIVE ImagesOf(_, _)
ImagesOf(pixels, n) ==
    IF n = 0 THEN {<<>>}
    ELSE {Append(img, px) : img \in ImagesOf(pixels, n - 1), px \in pixels}

ArrayShapes ==
    {[ndim |-> 2, channels |-> 1], [ndim |-> 3, channels |-> 2],
     [ndim |-> 3, channels |-> 3], [ndim |-> 3, channels |-> 4]}

RECURSIVE Sum(_)
Sum(px) == IF px = <<>> THEN 0 ELSE Head(px) + Sum(Tail(px))

\* the comparison taken as >=
binary_pixel_Inclusive(img, px) ==
    IF img.ndim = 3 /\ img.channels = 4
    THEN (IF px[4] >= 128 THEN 255 ELSE 0)
    ELSE IF img.ndim = 3
    THEN (IF Sum(px) >= 128 * Len(px) THEN 255 ELSE 0)
    ELSE (IF px[1] >= 128 THEN 255 ELSE 0)

\* one element of binary_mask; np.mean(axis=2) > 128 is Sum > 128 * channels
binary_pixel(img, px) ==
    IF img.ndim = 3 /\ img.channels = 4
    THEN (IF px[4] > 128 THEN 255 ELSE 0)
    ELSE IF img.ndim = 3
    THEN (IF Sum(px) > 128 * Len(px) THEN 255 ELSE 0)
    ELSE (IF px[1] > 128 THEN 255 ELSE 0)

\* the mode "L" image returned, as its array
pil_to_binary_mask(img) ==
    [ndim |-> 2, channels |-> 1,
     data |-> [k \in 1..Len(img.data) |-> <<binary_pixel(img, img.data[k])>>]]

NoImage == [ndim |-> 2, channels |-> 1, data |-> <<>>]

\* one call of translate_to_english
UTranslate(text, o) ==
    /\ upc = "idle"
    /\ upc' = "translated"
    /\ utext' = text
    /\ uoutcome' = o
    /\ ureturned' = IF translate_try_raises(o) /\ ~translate_catches(o) THEN None
                    ELSE Some(translate_to_english(text, converse_text(o)))
    /\ uraised' = (translate_try_raises(o) /\ ~translate_catches(o))
    /\ UNCHANGED <<uimage, umask>>
    /\ UNCHANGED <<apiVars, workerVars, genVars, handlerVars, signupVars>>

\* one call of pil_to_binary_mask
UBinarize(img) ==
    /\ upc = "idle"
    /\ upc' = "binarized"
    /\ uimage' = img
    /\ umask' = pil_to_binary_mask(img)
    /\ UNCHANGED <<utext, uoutcome, ureturned, uraised>>
    /\ UNCHANGED <<apiVars, workerVars, genVars, handlerVars, signupVars>>

UReturn ==
    /\ upc # "idle"
    /\ upc' = "idle"
    /\ utext' = <<>>
    /\ uoutcome' = ConverseRaised
    /\ ureturned' = None
    /\ uraised' = FALSE
    /\ uimage' = NoImage
    /\ umask' = NoImage
    /\ UNCHANGED <<apiVars, workerVars, genVars, handlerVars, signupVars>>

UtilInit ==
    /\ upc = "idle"
    /\ utext = <<>>
    /\ uoutcome = ConverseRaised
    /\ ureturned = None
    /\ uraised = FALSE
    /\ uimage = NoImage
    /\ umask = NoImage

CallTranslate ==
    upc = "idle" /\ \E text \in Texts, o \in ConverseOutcomes : UTranslate(text, o)

CallBinarize ==
    upc = "idle" /\ \E sh \in ArrayShapes : \E n \in 1..MaxPixels :
        \E d \in ImagesOf(PixelsOf(sh.channels), n) :
            UBinarize([ndim |-> sh.ndim, channels |-> sh.channels, data |-> d])

UtilNext ==
    \/ CallTranslate
    \/ CallBinarize
    \/ UReturn

----------------------------------------------------------------------------
(* Worker: text-to-image (both families) and background replacement *)

\* dict.get(key, default)
Get(d, key, default) == IF key \in DOMAIN d THEN d[key] ELSE default

\* truthiness of an Optional[List[str]]
ListTruthy(o) == ~IsNone(o) /\ Len(Val(o)) > 0

\* os.environ.get("VTO_BUCKET") of the deployed worker
VTO_BUCKET == Some(<<"b">>)

is_nova2_model(model_id) == model_id = "nova2"

\* the branch the handler and generate_text_to_image take for an event
family(e) ==
    CASE e.key = "text_to_image_params" ->
            IF is_nova2_model(Get(e, "model_id", "amazon.titan-image-generator-v2:0"))
            THEN "nova2" ELSE "canvas"
      [] e.key = "replace_background_params" -> "background"
      [] OTHER -> "unrecognised"

GCompleted == [statusCode |-> 200, status |-> "completed", error |-> "none"]
GFailed(err) == [statusCode |-> 500, status |-> "failed", error |-> err]
GRejected(err) == [statusCode |-> 400, status |-> "error", error |-> err]
NoGResponse == [statusCode |-> 0, status |-> "none", error |-> "none"]

NoEvent == [key |-> "none"]

\* if "cfg_scale" in params / if "quality" in params
ignored_parameters(e) ==
    (IF "cfg_scale" \in DOMAIN e THEN {"Ignoring cfg_scale parameter"} ELSE {})
    \cup (IF "quality" \in DOMAIN e THEN {"Ignoring quality parameter"} ELSE {})

\* the emptiness test of the prompt left out
prompt_missing_Never(e) == FALSE

\* if not prompt
prompt_missing(e) == ~OptTruthy(Get(e, "prompt", Some(<<>>)))

\* images the event asks the model for
requested_images(e) ==
    IF family(e) = "nova2" THEN 1 ELSE Get(e, "number_of_images", 1)

\* events sent to the worker directly
PromptValues == {None, Some(<<>>), Some(<<" ">>), Some(<<"x">>)}

EventNames ==
    {None, Some(<<>>), Some(RepeatedNames(MaxWorkerImages))}
    \cup {Some(NamePool(len)) : len \in 1..MaxWorkerImages}

TextToImageEvents ==
    {[key |-> "text_to_image_params", prompt |-> p, model_id |-> m,
      number_of_images |-> n, object_names |-> names] @@ extra :
        p \in PromptValues, m \in {NOVA2, DEFAULT_MODEL_ID},
        n \in 1..MaxWorkerImages, names \in EventNames,
        extra \in {EmptyDict, [cfg_scale |-> 80, quality |-> "standard"]}}
    \cup {[key |-> "text_to_image_params", model_id |-> m, object_names |-> names] :
            m \in {NOVA2, DEFAULT_MODEL_ID}, names \in EventNames}

BackgroundEvents ==
    {[key |-> "replace_background_params", prompt |-> p,
      input_image_object_name |-> i, mask_image_object_name |-> mk,
      model_id |-> DEFAULT_MODEL_ID, cfg_scale |-> 65, quality |-> "premium",
      number_of_images |-> n, object_names |-> names] :
        p \in PromptValues, i \in {None, Some(<<"x">>)}, mk \in {None, Some(<<"x">>)},
        n \in 1..MaxWorkerImages, names \in EventNames}

EditEvents ==
    {[key |-> "image_edit_params", prompt |-> p, input_image_object_name |-> Some(<<"x">>),
      model_id |-> NOVA2, number_of_images |-> 1, object_names |-> names,
      image_index |-> 0] :
        p \in PromptValues, names \in EventNames}

EventKinds == {"text_to_image_params", "replace_background_params", "image_edit_params"}

EventsOf(kind) ==
    CASE kind = "text_to_image_params" -> TextToImageEvents
      [] kind = "replace_background_params" -> BackgroundEvents
      [] OTHER -> EditEvents

\* the handler is invoked with an event
GReceive(e) ==
    /\ gpc = "idle"
    /\ gevent' = e
    /\ gunit' = 0
    /\ gpc' = "handler"
    /\ UNCHANGED <<greads, gtranslations, ginvocations, gimages, gidx, gwrites,
                   glog, gfailed, gresponse, gprocessed, store, gparked, gwritten>>
    /\ UNCHANGED <<apiVars, workerVars, utilVars, handlerVars, signupVars>>

\* handler, generate_text_to_image, generate_with_nova2 and
\* process_background_replacement up to their first collaborator call
GHandler ==
    /\ gpc = "handler"
    /\ LET fam == family(gevent) IN
       IF fam = "unrecognised"
       THEN gresponse' = GRejected("No recognized parameter type") /\ gpc' = "done"
       ELSE IF prompt_missing(gevent)
       THEN gresponse' = GRejected("Prompt is required") /\ gpc' = "done"
       ELSE IF fam = "background"
               /\ ~OptTruthy(Get(gevent, "input_image_object_name", None))
       THEN gresponse' = GRejected("input_image_object_name is required")
            /\ gpc' = "done"
       ELSE /\ gresponse' = gresponse
            /\ gpc' = IF fam = "background" THEN "read" ELSE "translate"
    /\ UNCHANGED <<gevent, gunit, greads, gtranslations, ginvocations, gimages,
                   gidx, gwrites, glog, gfailed, gprocessed, store, gparked, gwritten>>
    /\ UNCHANGED <<apiVars, workerVars, utilVars, handlerVars, signupVars>>

\* the storage reads of process_background_replacement
GRead(input_ok, mask_ok) ==
    /\ gpc = "read"
    /\ IF ~input_ok
       THEN /\ mask_ok
            /\ greads' = Append(greads, [name |-> "input", required |-> TRUE,
                                         ok |-> FALSE])
            /\ gresponse' = GFailed("Failed to load input image from S3")
            /\ gpc' = "done"
            /\ gfailed' = TRUE
       ELSE IF OptTruthy(Get(gevent, "mask_image_object_name", None))
       THEN /\ greads' = greads \o <<[name |-> "input", required |-> TRUE, ok |-> TRUE],
                                     [name |-> "mask", required |-> FALSE, ok |-> mask_ok]>>
            /\ gresponse' = gresponse
            /\ gpc' = "translate"
            /\ gfailed' = (gfailed \/ ~mask_ok)
       ELSE /\ mask_ok
            /\ greads' = Append(greads, [name |-> "input", required |-> TRUE,
                                         ok |-> TRUE])
            /\ gresponse' = gresponse
            /\ gpc' = "translate"
            /\ gfailed' = gfailed
    /\ UNCHANGED <<gevent, gunit, gtranslations, ginvocations, gimages, gidx,
                   gwrites, glog, gprocessed, store, gparked, gwritten>>
    /\ UNCHANGED <<apiVars, workerVars, utilVars, handlerVars, signupVars>>

\* translate_to_english(prompt), which never raises, and for nova2 the
\* "Ignoring ..." records that follow it
GTranslate(translated) ==
    /\ gpc = "translate"
    /\ gtranslations' = gtranslations + 1
    /\ gfailed' = (gfailed \/ ~translated)
    /\ glog' = IF family(gevent) = "nova2" THEN glog \cup ignored_parameters(gevent)
               ELSE glog
    /\ gpc' = "invoke"
    /\ UNCHANGED <<gevent, gunit, greads, ginvocations, gimages, gidx, gwrites,
                   gresponse, gprocessed, store, gparked, gwritten>>
    /\ UNCHANGED <<apiVars, workerVars, utilVars, handlerVars, signupVars>>

\* the model invocation: returned = -1 when it raises or answers with an
\* error, else the number of images in its answer
GInvoke(returned) ==
    /\ gpc = "invoke"
    /\ ginvocations' = ginvocations + 1
    /\ gfailed' = (gfailed \/ returned < requested_images(gevent))
    /\ gidx' = 0
    /\ LET fam == family(gevent)
           names == Get(gevent, "object_names", IF fam = "nova2" THEN Some(<<>>) ELSE None)
           saving == ListTruthy(names) /\ OptTruthy(VTO_BUCKET)
       IN
       IF fam = "nova2"
       THEN IF returned < 0
            THEN gresponse' = GFailed("Bedrock API error") /\ gpc' = "done"
                 /\ gimages' = 0
            ELSE IF returned = 0
            THEN gresponse' = GFailed("No image generated") /\ gpc' = "done"
                 /\ gimages' = 0
            ELSE /\ gimages' = 1
                 /\ IF saving THEN gresponse' = gresponse /\ gpc' = "save"
                    ELSE gresponse' = GCompleted /\ gpc' = "done"
       ELSE IF returned < 0
            THEN /\ gimages' = 0
                 /\ gpc' = "done"
                 /\ gresponse' = IF fam = "background" THEN GCompleted
                                 ELSE GFailed("Image generation error")
            ELSE /\ gimages' = returned
                 /\ IF saving /\ returned > 0
                    THEN gresponse' = gresponse /\ gpc' = "save"
                    ELSE gresponse' = GCompleted /\ gpc' = "done"
    /\ UNCHANGED <<gevent, gunit, greads, gtranslations, gwrites, glog,
                   gprocessed, store, gparked, gwritten>>
    /\ UNCHANGED <<apiVars, workerVars, utilVars, handlerVars, signupVars>>

\* save_image_to_s3: the one call of generate_with_nova2, or one iteration of
\* for idx, image_base64 in enumerate(images)
GSave(saved) ==
    /\ gpc = "save"
    /\ LET names == Val(gevent.object_names) IN
       IF family(gevent) = "nova2"
       THEN /\ gwrites' = Append(gwrites, [key |-> save_key(names, 0), image |-> 0,
                                           ok |-> saved])
            /\ gidx' = gidx
            /\ gfailed' = (gfailed \/ ~saved)
            /\ gpc' = "done"
            /\ gresponse' = IF saved THEN GCompleted
                            ELSE GFailed("Failed to save image to S3")
       ELSE /\ IF gidx < Len(names)
               THEN /\ gwrites' = Append(gwrites, [key |-> save_key(names, gidx),
                                                   image |-> gidx, ok |-> saved])
                    /\ gfailed' = (gfailed \/ ~saved)
               ELSE /\ saved
                    /\ gwrites' = gwrites
                    /\ gfailed' = TRUE
            /\ gidx' = gidx + 1
            /\ IF gidx + 1 < gimages
               THEN gpc' = "save" /\ gresponse' = gresponse
               ELSE gpc' = "done" /\ gresponse' = GCompleted
    /\ UNCHANGED <<gevent, gunit, greads, gtranslations, ginvocations, gimages,
                   glog, gprocessed, store, gparked, gwritten>>
    /\ UNCHANGED <<apiVars, workerVars, utilVars, handlerVars, signupVars>>

\* the invocation ends
GFinish ==
    /\ gpc = "done"
    /\ gunit = 0
    /\ gpc' = "idle"
    /\ gevent' = NoEvent
    /\ greads' = <<>>
    /\ gtranslations' = 0
    /\ ginvocations' = 0
    /\ gimages' = 0
    /\ gidx' = 0
    /\ gwrites' = <<>>
    /\ glog' = {}
    /\ gfailed' = FALSE
    /\ gresponse' = NoGResponse
    /\ UNCHANGED <<gunit, gprocessed, store, gparked, gwritten>>
    /\ UNCHANGED <<apiVars, workerVars, utilVars, handlerVars, signupVars>>

GenInit ==
    /\ gpc = "idle"
    /\ gevent = NoEvent
    /\ gunit = 0
    /\ greads = <<>>
    /\ gtranslations = 0
    /\ ginvocations = 0
    /\ gimages = 0
    /\ gidx = 0
    /\ gwrites = <<>>
    /\ glog = {}
    /\ gfailed = FALSE
    /\ gresponse = NoGResponse
    /\ gprocessed = {}
    /\ store = {}
    /\ gparked = EmptyDict
    /\ gwritten = {}

ReceiveGenEvent ==
    gpc = "idle" /\ \E kind \in EventKinds : \E e \in EventsOf(kind) : GReceive(e)

GenWorkerNext ==
    \/ ReceiveGenEvent
    \/ GHandler
    \/ \E i, m \in BOOLEAN : GRead(i, m)
    \/ \E translated \in BOOLEAN : GTranslate(translated)
    \/ \E returned \in -1..MaxWorkerImages : GInvoke(returned)
    \/ \E saved \in BOOLEAN : GSave(saved)
    \/ GFinish

----------------------------------------------------------------------------
(* The API proxy and the worker together: a unit whose asynchronous        *)
(* invocation was accepted (an entry of attempts with ok) is an event the   *)
(* worker is invoked with, in any order.  One worker instance is followed;  *)
(* the request is kept until its units have been processed.                 *)

PipelineOps == {"model", "edit", "background"}

PipelineRequests(op) ==
    {r \in RequestsOf(op) : r.number_of_images <= MaxWorkerImages}

PReceive ==
    pc = "idle" /\ gpc = "idle"
      /\ \E op \in PipelineOps : \E r \in PipelineRequests(op) : Receive(r)

\* the worker is invoked with the k-th submitted unit
PDeliver(k) ==
    /\ gpc = "idle"
    /\ k \in 1..Len(attempts)
    /\ attempts[k].ok
    /\ k \notin gprocessed
    /\ k \notin DOMAIN gparked
    /\ gevent' = attempts[k].payload
    /\ gunit' = k
    /\ gpc' = "handler"
    /\ UNCHANGED <<greads, gtranslations, ginvocations, gimages, gidx, gwrites,
                   glog, gfailed, gresponse, gprocessed, store, gparked, gwritten>>
    /\ UNCHANGED <<apiVars, workerVars, utilVars, handlerVars, signupVars>>

\* the invocation for a submitted unit ends; what it wrote stays in the bucket
PUnitDone ==
    /\ gpc = "done"
    /\ gunit # 0
    /\ gprocessed' = gprocessed \cup {gunit}
    /\ store' = store \cup {gwrites[j].key : j \in {i \in 1..Len(gwrites) : gwrites[i].ok}}
    /\ gwritten' = gwritten \cup
         {[unit |-> gunit, key |-> gwrites[j].key] :
            j \in {i \in 1..Len(gwrites) : gwrites[i].ok}}
    /\ gpc' = "idle"
    /\ gevent' = NoEvent
    /\ gunit' = 0
    /\ greads' = <<>>
    /\ gtranslations' = 0
    /\ ginvocations' = 0
    /\ gimages' = 0
    /\ gidx' = 0
    /\ gwrites' = <<>>
    /\ gresponse' = NoGResponse
    /\ UNCHANGED <<glog, gfailed, gparked>>
    /\ UNCHANGED <<apiVars, workerVars, utilVars, handlerVars, signupVars>>

\* every unit submitted for the request has been processed
AllProcessed ==
    \A k \in 1..Len(attempts) : attempts[k].ok => k \in gprocessed

\* the request is answered and nothing of it is left to do
PReset ==
    /\ pc = "done"
    /\ gpc = "idle"
    /\ AllProcessed
    /\ pc' = "idle"
    /\ req' = NoRequest
    /\ idx' = 0
    /\ attempts' = <<>>
    /\ dispatch_raised' = FALSE
    /\ response' = NoResponse
    /\ gprocessed' = {}
    /\ store' = {}
    /\ gwritten' = {}
    /\ glog' = {}
    /\ gfailed' = FALSE
    /\ UNCHANGED <<fn_name, gpc, gevent, gunit, greads, gtranslations,
                   ginvocations, gimages, gidx, gwrites, gresponse, gparked>>
    /\ UNCHANGED <<workerVars, utilVars, handlerVars, signupVars>>

PipelineNext ==
    \/ PReceive
    \/ EnterDispatch
    \/ \E raises \in BOOLEAN : LoopIteration(raises)
    \/ LoopExit
    \/ \E raises \in BOOLEAN : SingleSubmit(raises)
    \/ Respond
    \/ \E k \in 1..MaxImages : PDeliver(k)
    \/ GHandler
    \/ \E i, m \in BOOLEAN : GRead(i, m)
    \/ \E translated \in BOOLEAN : GTranslate(translated)
    \/ \E returned \in -1..MaxWorkerImages : GInvoke(returned)
    \/ \E saved \in BOOLEAN : GSave(saved)
    \/ PUnitDone
    \/ PReset

----------------------------------------------------------------------------
(* The units of one parallel request executing concurrently: every         *)
(* submitted unit has its own worker instance, and the instances take their *)
(* steps in any interleaving.  The instance whose step is being taken is in *)
(* the g-variables; the others wait in gparked between two of their steps.  *)

ParallelOps == {"model", "edit"}

ParallelRequests(op) == {r \in PipelineRequests(op) : IsParallel(r)}

CReceive ==
    pc = "idle" /\ gpc = "idle" /\ gparked = EmptyDict
      /\ \E op \in ParallelOps : \E r \in ParallelRequests(op) : Receive(r)

\* the local state of the instance whose step was taken last
Instance ==
    [pc |-> gpc, event |-> gevent, reads |-> greads,
     translations |-> gtranslations, invocations |-> ginvocations,
     images |-> gimages, idx |-> gidx, writes |-> gwrites, response |-> gresponse]

\* another instance is about to take a step: this one waits
CPark ==
    /\ gpc \in {"handler", "translate", "invoke", "save"}
    /\ gunit # 0
    /\ gparked' = (gunit :> Instance) @@ gparked
    /\ gpc' = "idle"
    /\ gevent' = NoEvent
    /\ gunit' = 0
    /\ greads' = <<>>
    /\ gtranslations' = 0
    /\ ginvocations' = 0
    /\ gimages' = 0
    /\ gidx' = 0
    /\ gwrites' = <<>>
    /\ gresponse' = NoGResponse
    /\ UNCHANGED <<glog, gfailed, gprocessed, store, gwritten>>
    /\ UNCHANGED <<apiVars, workerVars, utilVars, handlerVars, signupVars>>

\* the instance of unit k takes the next step
CResume(k) ==
    /\ gpc = "idle"
    /\ k \in DOMAIN gparked
    /\ gparked' = [j \in DOMAIN gparked \ {k} |-> gparked[j]]
    /\ gpc' = gparked[k].pc
    /\ gevent' = gparked[k].event
    /\ gunit' = k
    /\ greads' = gparked[k].reads
    /\ gtranslations' = gparked[k].translations
    /\ ginvocations' = gparked[k].invocations
    /\ gimages' = gparked[k].images
    /\ gidx' = gparked[k].idx
    /\ gwrites' = gparked[k].writes
    /\ gresponse' = gparked[k].response
    /\ UNCHANGED <<glog, gfailed, gprocessed, store, gwritten>>
    /\ UNCHANGED <<apiVars, workerVars, utilVars, handlerVars, signupVars>>

ConcurrentNext ==
    \/ CReceive
    \/ EnterDispatch
    \/ \E raises \in BOOLEAN : LoopIteration(raises)
    \/ LoopExit
    \/ Respond
    \/ \E k \in 1..MaxImages : PDeliver(k)
    \/ CPark
    \/ \E k \in 1..MaxImages : CResume(k)
    \/ GHandler
    \/ \E translated \in BOOLEAN : GTranslate(translated)
    \/ \E returned \in -1..MaxWorkerImages : GInvoke(returned)
    \/ \E saved \in BOOLEAN : GSave(saved)
    \/ PUnitDone
    \/ PReset

----------------------------------------------------------------------------
(* The worker's Lambda handler: the branch of index.py that serves an      *)
(* event, followed through the operation it calls.  A top-level key of the  *)
(* event is None when the event does not have it.                           *)

\* the order of the elif chain taken the other way round
handler_branch_Reversed(e) ==
    IF e.test = Some("health_check") THEN "health_check"
    ELSE IF ~IsNone(e.text_to_image_params) THEN "text_to_image_params"
    ELSE IF ~IsNone(e.replace_background_params) THEN "replace_background_params"
    ELSE IF ~IsNone(e.vto_params) THEN "vto_params"
    ELSE "unrecognised"

\* if "test" in event and event["test"] == "health_check" / elif ... / else
handler_branch(e) ==
    IF e.test = Some("health_check") THEN "health_check"
    ELSE IF ~IsNone(e.vto_params) THEN "vto_params"
    ELSE IF ~IsNone(e.replace_background_params) THEN "replace_background_params"
    ELSE IF ~IsNone(e.text_to_image_params) THEN "text_to_image_params"
    ELSE "unrecognised"

Healthy == [statusCode |-> 200, status |-> "healthy", error |-> "none"]

\* values of the top-level keys of the events the handler is invoked with
HandlerVtoParams ==
    {[NoParams EXCEPT !.object_names = Some(NamePool(1))],
     [NoParams EXCEPT !.mask_type = "IMAGE", !.object_names = Some(NamePool(1))]}

HandlerBackgroundParams ==
    {[key |-> "replace_background_params", prompt |-> Some(<<"x">>),
      input_image_object_name |-> Some(<<"x">>), mask_image_object_name |-> None,
      model_id |-> DEFAULT_MODEL_ID, cfg_scale |-> 65, quality |-> "premium",
      number_of_images |-> 1, object_names |-> Some(NamePool(1))]}

HandlerTextToImageParams ==
    {[key |-> "text_to_image_params", prompt |-> Some(<<"x">>), model_id |-> m,
      number_of_images |-> 1, object_names |-> Some(NamePool(1))] :
        m \in {NOVA2, DEFAULT_MODEL_ID}}

HandlerEditParams ==
    {[key |-> "image_edit_params", prompt |-> Some(<<"x">>),
      input_image_object_name |-> Some(<<"x">>), model_id |-> NOVA2,
      number_of_images |-> 1, object_names |-> Some(NamePool(1)), image_index |-> 0]}

Opt(S) == {None} \cup {Some(v) : v \in S}

HandlerEvents ==
    [test : {None, Some("health_check"), Some("other")},
     vto_params : Opt(HandlerVtoParams),
     replace_background_params : Opt(HandlerBackgroundParams),
     text_to_image_params : Opt(HandlerTextToImageParams),
     image_edit_params : Opt(HandlerEditParams)]

NoHandlerEvent ==
    [test |-> None, vto_params |-> None, replace_background_params |-> None,
     text_to_image_params |-> None, image_edit_params |-> None]

\* the handler is invoked with an event
HReceive(e) ==
    /\ hpc = "idle"
    /\ wpc = "idle"
    /\ gpc = "idle"
    /\ hevent' = e
    /\ hpc' = "dispatch"
    /\ UNCHANGED <<hbranch, hresponse>>
    /\ UNCHANGED <<apiVars, workerVars, utilVars, genVars, signupVars>>

\* the if / elif chain; the health check and the else branch return at once
HSelect ==
    /\ hpc = "dispatch"
    /\ LET branch == handler_branch(hevent) IN
       /\ hbranch' = branch
       /\ IF branch = "health_check"
          THEN hresponse' = Healthy /\ hpc' = "returned"
          ELSE IF branch = "unrecognised"
          THEN hresponse' = GRejected("No recognized parameter type")
               /\ hpc' = "returned"
          ELSE hresponse' = hresponse /\ hpc' = "serving"
    /\ UNCHANGED hevent
    /\ UNCHANGED <<apiVars, workerVars, utilVars, genVars, signupVars>>

\* return process_vto_request(event.get("vto_params", {}))
HServeVto ==
    /\ hpc = "serving"
    /\ hbranch = "vto_params"
    /\ WReceive(Val(hevent.vto_params))

\* return process_background_replacement(...) / return generate_text_to_image(...)
HServeGen ==
    /\ hpc = "serving"
    /\ hbranch \in {"replace_background_params", "text_to_image_params"}
    /\ GReceive(Val(hevent[hbranch]))

\* the operation called has returned, and the handler returns its value
HReturn ==
    /\ hpc = "serving"
    /\ \/ wpc = "done"
          /\ hresponse' = [statusCode |-> wresponse.statusCode,
                           status |-> wresponse.status,
                           error |-> IF wresponse.statusCode = 200 THEN "none"
                                     ELSE "VTO processing failed"]
       \/ gpc = "done" /\ hresponse' = gresponse
    /\ hpc' = "returned"
    /\ UNCHANGED <<hevent, hbranch>>
    /\ UNCHANGED <<apiVars, workerVars, utilVars, genVars, signupVars>>

\* the steps of the operation the handler called
HOperationStep ==
    /\ hpc = "serving"
    /\ \/ \E s, r, m \in BOOLEAN : WLoadImages(s, r, m)
       \/ \E remote \in RemoteTexts, d \in BOOLEAN : WCompose(remote, d)
       \/ \E returned \in -1..MaxWorkerImages : WInvoke(returned)
       \/ \E saved \in BOOLEAN : WSaveImage(saved)
       \/ WReturn
       \/ GHandler
       \/ \E i, m \in BOOLEAN : GRead(i, m)
       \/ \E translated \in BOOLEAN : GTranslate(translated)
       \/ \E returned \in -1..MaxWorkerImages : GInvoke(returned)
       \/ \E saved \in BOOLEAN : GSave(saved)

\* the invocation ends
HFinish ==
    /\ hpc = "returned"
    /\ \/ wpc = "done" /\ WFinish
       \/ gpc = "done" /\ GFinish
       \/ wpc = "idle" /\ gpc = "idle" /\ hpc' = "idle" /\ hevent' = NoHandlerEvent
          /\ hbranch' = "none" /\ hresponse' = NoGResponse
          /\ UNCHANGED <<apiVars, workerVars, utilVars, genVars, signupVars>>

HandlerInit ==
    /\ hpc = "idle"
    /\ hevent = NoHandlerEvent
    /\ hbranch = "none"
    /\ hresponse = NoGResponse

ReceiveHandlerEvent == hpc = "idle" /\ \E e \in HandlerEvents : HReceive(e)

HandlerNext ==
    \/ ReceiveHandlerEvent
    \/ HSelect
    \/ HServeVto
    \/ HServeGen
    \/ HOperationStep
    \/ HReturn
    \/ HFinish

----------------------------------------------------------------------------
(* The Cognito pre-sign-up trigger (cognito_triggers/pre_sign_up/app.py).  *)
(* Email addresses and domains are strings over SignupChars, whose letter   *)
(* comes in both cases so that lower() is computed.                         *)

SignupChars == {"a", "A", "@"}

RECURSIVE SignupTexts(_, _)
SignupTexts(chars, n) ==
    IF n = 0 THEN {<<>>}
    ELSE SignupTexts(chars, n - 1) \cup
         {Append(t, c) : t \in {u \in SignupTexts(chars, n - 1) : Len(u) = n - 1},
                         c \in chars}

\* str.lower()
Lower(t) == [i \in 1..Len(t) |-> IF t[i] = "A" THEN "a" ELSE t[i]]

\* str.split("@")
RECURSIVE Split(_)
Split(t) ==
    IF t = <<>> THEN << <<>> >>
    ELSE IF Head(t) = "@" THEN << <<>> >> \o Split(Tail(t))
    ELSE LET rest == Split(Tail(t)) IN << <<Head(t)>> \o rest[1] >> \o Tail(rest)

\* entries an operator may put in the allowed-domain list
DomainEntries == SignupTexts({"a", "A"}, 2) \ {<<>>}

RECURSIVE ListsUpTo(_, _)
ListsUpTo(S, n) ==
    IF n = 0 THEN {<<>>}
    ELSE ListsUpTo(S, n - 1) \cup
         {Append(l, x) : l \in {u \in ListsUpTo(S, n - 1) : Len(u) = n - 1}, x \in S}

\* ALLOWED_SIGN_UP_EMAIL_DOMAINS_STR: valid JSON holding a list, or not JSON
AllowedConfigs(n) ==
    {[valid |-> TRUE, domains |-> l] : l \in ListsUpTo(DomainEntries, n)}
    \cup {[valid |-> FALSE, domains |-> <<>>]}

\* json.loads(allowed_domains_str), [] on JSONDecodeError
allowed_domains(cfg) == IF cfg.valid THEN cfg.domains ELSE <<>>

Members(l) == {l[i] : i \in 1..Len(l)}

\* domain not in allowed_domains, negated
domain_allowed(domain, allowed) == domain \in Members(allowed)

SignupReturned(auto) ==
    [kind |-> "returned", autoConfirmUser |-> auto, message |-> "none",
     domain |-> <<>>, allowed |-> <<>>]
SignupRaised(msg, domain, allowed) ==
    [kind |-> "raised", autoConfirmUser |-> FALSE, message |-> msg,
     domain |-> domain, allowed |-> allowed]
NoSignupResult ==
    [kind |-> "none", autoConfirmUser |-> FALSE, message |-> "none",
     domain |-> <<>>, allowed |-> <<>>]

\* handler(event, context)
pre_sign_up(email, cfg) ==
    LET allowed == allowed_domains(cfg) IN
    IF allowed = <<>> THEN SignupReturned(FALSE)
    ELSE IF email = <<>> THEN SignupReturned(FALSE)
    ELSE IF Len(Split(email)) < 2
    THEN SignupRaised("Invalid email format", <<>>, <<>>)
    ELSE LET domain == Lower(Split(email)[2]) IN
         IF ~domain_allowed(domain, allowed)
         THEN SignupRaised("Sign up not allowed with email domain", domain, allowed)
         ELSE SignupReturned(TRUE)

\* Cognito invokes the trigger for a sign-up
SReceive(email, cfg) ==
    /\ spc = "idle"
    /\ semail' = email
    /\ sallowed' = cfg
    /\ spc' = "called"
    /\ UNCHANGED sresult
    /\ UNCHANGED <<apiVars, workerVars, utilVars, genVars, handlerVars>>

\* the trigger runs
SHandle ==
    /\ spc = "called"
    /\ sresult' = pre_sign_up(semail, sallowed)
    /\ spc' = "done"
    /\ UNCHANGED <<semail, sallowed>>
    /\ UNCHANGED <<apiVars, workerVars, utilVars, genVars, handlerVars>>

\* the invocation ends
SFinish ==
    /\ spc = "done"
    /\ spc' = "idle"
    /\ semail' = <<>>
    /\ sallowed' = [valid |-> TRUE, domains |-> <<>>]
    /\ sresult' = NoSignupResult
    /\ UNCHANGED <<apiVars, workerVars, utilVars, genVars, handlerVars>>

SignupInit ==
    /\ spc = "idle"
    /\ semail = <<>>
    /\ sallowed = [valid |-> TRUE, domains |-> <<>>]
    /\ sresult = NoSignupResult

ReceiveSignup ==
    spc = "idle"
      /\ \E email \in SignupTexts(SignupChars, MaxEmailLen) :
           \E cfg \in AllowedConfigs(MaxDomains) : SReceive(email, cfg)

SignupNext ==
    \/ ReceiveSignup
    \/ SHandle
    \/ SFinish

----------------------------------------------------------------------------
(* Specifications *)

Init == ApiInit /\ WorkerInit /\ UtilInit /\ GenInit /\ HandlerInit /\ SignupInit

Next == ApiNext

\* the API proxy serving requests
Spec == Init /\ [][Next]_vars

WorkerSpecInit ==
    /\ ApiInit
    /\ fn_name = Some(<<"f">>)
    /\ WorkerInit
    /\ UtilInit
    /\ GenInit
    /\ HandlerInit
    /\ SignupInit

\* the VTO worker processing events
WorkerSpec == WorkerSpecInit /\ [][WorkerNext]_vars

\* The API proxy and the worker are two Lambda functions that share no
\* state; here they run side by side, one request or event at a time.
ApiTurn == wpc = "idle" /\ gpc = "idle" /\ ApiNext

WorkerTurn == pc = "idle" /\ gpc = "idle" /\ WorkerNext

GenWorkerTurn == pc = "idle" /\ wpc = "idle" /\ GenWorkerNext

SystemNext == ApiTurn \/ WorkerTurn \/ GenWorkerTurn

SystemSpec == WorkerSpecInit /\ [][SystemNext]_vars

\* the worker processing text-to-image and background-replacement events
GenWorkerSpec == WorkerSpecInit /\ [][GenWorkerNext]_vars

\* a request followed from the API proxy through the worker
PipelineSpec == WorkerSpecInit /\ [][PipelineNext]_vars

\* the units of a parallel request executing concurrently
ConcurrentSpec == WorkerSpecInit /\ [][ConcurrentNext]_vars

\* the two worker utilities called on their own
UtilSpec == WorkerSpecInit /\ [][UtilNext]_vars

\* the worker's handler invoked with events of any shape
HandlerSpec == WorkerSpecInit /\ [][HandlerNext]_vars

\* the pre-sign-up trigger invoked for sign-ups
SignupSpec == WorkerSpecInit /\ [][SignupNext]_vars

----------------------------------------------------------------------------
(* Properties *)

\* the invoke_* function of the request has returned
Dispatched == pc = "respond"

Configured == ~Unconfigured(fn_name)

NamesMatchCount(r) ==
    ~IsNone(r.object_names) /\ Len(Val(r.object_names)) = r.number_of_images

\* image_index values of the units built for the request
BuiltIndices == {attempts[k].payload.image_index : k \in 1..Len(attempts)}

\* a str that is empty or all whitespace
Blank(t) == \A k \in 1..Len(t) : t[k] = " "

\* C1: a text-to-image request with 1 <= N <= 5, a configured function name
\* and N object names gets exactly N invocation attempts when model_id is
\* "nova2" and exactly one for every other model_id.
C1_AttemptCount ==
    (Dispatched /\ req.op = "model" /\ Configured /\ NamesMatchCount(req)
       /\ req.number_of_images >= 1 /\ req.number_of_images <= 5)
    => Len(attempts) = IF req.model_id = "nova2" THEN req.number_of_images ELSE 1

C1_Witness ==
    /\ Dispatched /\ req.op = "model" /\ Configured /\ NamesMatchCount(req)
    /\ req.model_id = "nova2" /\ req.number_of_images = 3
    /\ Len(attempts) = 3
    /\ ~attempts[2].ok

\* C2: in parallel dispatch (text-to-image with nova2, image edit) the unit
\* built at loop position i carries image_index = i, number_of_images = 1 and
\* object_names = [request.object_names[i]], and over one request the
\* image_index values of the built units are exactly {0, ..., N-1}.
C2_UnitIndices ==
    (Dispatched /\ req.op \in {"model", "edit"} /\ Configured
       /\ (req.op = "model" => req.model_id = "nova2"))
    => /\ \A k \in 1..Len(attempts) :
            /\ attempts[k].payload.image_index = k - 1
            /\ attempts[k].payload.number_of_images = 1
            /\ ~IsNone(req.object_names)
            /\ k <= Len(Val(req.object_names))
            /\ attempts[k].payload.object_names = Some(<<Val(req.object_names)[k]>>)
       /\ BuiltIndices = 0..(req.number_of_images - 1)

\* C3: for a text-to-image request whose model_id is not "nova2" the single
\* dispatched unit carries the request's number_of_images, its object_names
\* list unmodified, and its cfg_scale and quality.
C3_AggregateUnit ==
    (Dispatched /\ req.op = "model" /\ req.model_id # "nova2" /\ Configured)
    => /\ Len(attempts) = 1
       /\ attempts[1].payload.number_of_images = req.number_of_images
       /\ attempts[1].payload.object_names = req.object_names
       /\ attempts[1].payload.cfg_scale = req.cfg_scale
       /\ attempts[1].payload.quality = req.quality

C3_Witness ==
    /\ Dispatched /\ req.op = "model" /\ req.model_id # "nova2" /\ Configured
    /\ req.number_of_images = 3 /\ NamesMatchCount(req)
    /\ req.cfg_scale = 80 /\ req.quality = "standard"
    /\ Len(attempts) = 1

\* a request was received and passed the schema checks the claims name:
\* number_of_images in 1..5 and the required fields present and not blank
PassedValidation == pc = "done" /\ response.status_code # 422

\* C4: for each of the four operations, every request that passed schema
\* validation is answered with status "accepted" and the request's full
\* object_names list, whether every, some or none of the submissions succeeded.
C4_AlwaysAccepted ==
    PassedValidation
    => /\ response.status = "accepted"
       /\ response.object_names = req.object_names

\* C5: in parallel dispatch of N units, if the invoke call of some unit
\* raises, every other unit of the request is still submitted and the
\* operation still returns status "accepted" with all N object names.
C5_FailureIsolation ==
    (PassedValidation /\ Configured /\ NamesMatchCount(req)
       /\ (req.op = "edit" \/ (req.op = "model" /\ req.model_id = "nova2"))
       /\ \E k \in 1..Len(attempts) : ~attempts[k].ok)
    => /\ BuiltIndices = 0..(req.number_of_images - 1)
       /\ response.status = "accepted"
       /\ response.object_names = req.object_names

C7_ErrorMeansNothingSubmitted ==
    (pc = "done" /\ ~(response.status_code = 200 /\ response.status = "accepted"))
    => \A k \in 1..Len(attempts) : ~attempts[k].ok

\* the request fails validation as the claim words it
FailsValidation(r) ==
    \/ r.number_of_images < 1
    \/ r.number_of_images > 5
    \/ IsNone(r.group_id)
    \/ IsNone(r.subject)
    \/ Blank(Val(r.group_id))
    \/ Blank(Val(r.subject))

\* C8: a request that fails validation (number_of_images outside 1..5, or a
\* required field missing or blank) is answered 422 and no unit is submitted
\* for it.
C8_RejectedUpFront ==
    (req.op \in Ops /\ FailsValidation(req))
    => /\ pc = "done"
       /\ response.status_code = 422
       /\ attempts = <<>>

C8_Witness ==
    /\ req.op = "model" /\ req.number_of_images = 6
    /\ validate_non_empty_string(req.group_id)
    /\ validate_non_empty_string(req.subject)
    /\ Configured
    /\ response.status_code = 422

\* C9: every request that reaches dispatch with number_of_images > 1 has
\* len(object_names) = number_of_images.
C9_NamesMatchCount ==
    (pc \in {"loop", "single"} /\ req.number_of_images > 1)
    => NamesMatchCount(req)

\* C10: in process_vto_image, for every declared mask_type, the maskType
\* written to the payload is PROMPT if mask_prompt is non-empty and not all
\* whitespace, and the declared mask_type otherwise.
C10_MaskPrecedence ==
    wpayload # EmptyDict
    => wpayload.virtualTryOnParams.maskType =
         IF ~Blank(wparams.mask_prompt) THEN "PROMPT" ELSE wparams.mask_type

C10_Witness ==
    /\ wpayload # EmptyDict
    /\ wparams.mask_type = "GARMENT"
    /\ wparams.mask_prompt = <<" ", "x">>
    /\ wpayload.virtualTryOnParams.maskType = "PROMPT"

\* C11 as stated: a VTO request with mask_type = "IMAGE" and no mask image or
\* mask object name fails before any downstream submission: the API submits
\* no unit for it, and the worker makes no model invocation for it.
C11_ImageWithoutMask ==
    /\ (req.op = "vto" /\ req.mask_type = "IMAGE"
          /\ IsNone(req.mask_image_object_name))
       => attempts = <<>>
    /\ (wparams.mask_type = "IMAGE" /\ IsNone(wmask))
       => winvocations = 0

\* C11 as amended: the API submits no unit for such a request, and the worker
\* makes no model invocation for such an event unless the event carries a
\* non-blank mask_prompt, which resolves the mask state to PROMPT.
C11_ImageWithoutMaskNoPrompt ==
    /\ (req.op = "vto" /\ req.mask_type = "IMAGE"
          /\ IsNone(req.mask_image_object_name))
       => /\ attempts = <<>>
          /\ pc = "done" /\ response.status_code = 422
    /\ (wparams.mask_type = "IMAGE" /\ IsNone(wmask) /\ Blank(wparams.mask_prompt))
       => winvocations = 0

C11_Witness ==
    /\ wpc = "done"
    /\ wparams.mask_type = "IMAGE" /\ wparams.mask_prompt = <<" ">>
    /\ ~IsNone(wparams.mask_image_object_name) /\ IsNone(wmask)
    /\ wresult.kind = "error"
    /\ winvocations = 0

\* inference_params is complete and is being passed to generate_vto_images
PayloadSent == wpc = "invoke"

\* the declared mask_type is IMAGE and no mask_prompt overrides it
ResolvedImage(p) == p.mask_type = "IMAGE" /\ Blank(p.mask_prompt)

\* C12: in the worker, when the resolved mask state is IMAGE and the mask
\* image cannot be resolved (object name absent, or the storage read fails),
\* process_vto_request does not report statusCode 200 / status "completed",
\* and the state written to the payload is still IMAGE, never GARMENT or
\* PROMPT.
C12_ImageMaskHardFailure ==
    (wpc \in {"return", "done"} /\ ResolvedImage(wparams) /\ IsNone(wmask))
    => /\ wpc = "done" => wresponse # [statusCode |-> 200, status |-> "completed"]
       /\ wpayload # EmptyDict => wpayload.virtualTryOnParams.maskType = "IMAGE"

SubObject(d, key) == IF key \in DOMAIN d THEN d[key] ELSE EmptyDict

\* C13: in the payload built by process_vto_image, each of numberOfImages,
\* quality, cfgScale and seed is a key of imageGenerationConfig if and only if
\* its value differs from its baseline (1, "standard", 3.0, -1), and then
\* carries that value.
C13_GenConfigOmission ==
    PayloadSent =>
      LET cfg == SubObject(wpayload, "imageGenerationConfig") IN
      /\ "numberOfImages" \in DOMAIN cfg <=> wparams.number_of_images # 1
      /\ "quality" \in DOMAIN cfg <=> wparams.quality # "standard"
      /\ "cfgScale" \in DOMAIN cfg <=> wparams.cfg_scale # 30
      /\ "seed" \in DOMAIN cfg <=> wparams.seed # -1
      /\ "numberOfImages" \in DOMAIN cfg => cfg.numberOfImages = wparams.number_of_images
      /\ "quality" \in DOMAIN cfg => cfg.quality = wparams.quality
      /\ "cfgScale" \in DOMAIN cfg => cfg.cfgScale = wparams.cfg_scale
      /\ "seed" \in DOMAIN cfg => cfg.seed = wparams.seed

C13_Witness ==
    /\ PayloadSent
    /\ wparams.cfg_scale = 30 /\ wparams.quality = "premium"
    /\ DOMAIN wpayload.imageGenerationConfig = {"quality"}

StylingSet(p) ==
    OptTruthy(p.long_sleeve_style) \/ OptTruthy(p.tucking_style)
      \/ OptTruthy(p.outer_layer_style)

ExclusionSet(p) ==
    p.preserve_body_pose # "DEFAULT" \/ p.preserve_hands # "DEFAULT"
      \/ p.preserve_face # "DEFAULT"

GenConfigSet(p) ==
    p.number_of_images # 1 \/ p.quality # "standard" \/ p.cfg_scale # 30
      \/ p.seed # -1

GarmentStylingAttached ==
    /\ "garmentBasedMask" \in DOMAIN wpayload.virtualTryOnParams
    /\ "garmentStyling" \in DOMAIN wpayload.virtualTryOnParams.garmentBasedMask

\* C14 as stated: garmentStyling, maskExclusions and imageGenerationConfig are
\* each attached to the payload if and only if at least one of their
\* constituent fields is set to a non-default value, and none is empty.
C14_SubObjectsIff ==
    PayloadSent =>
      /\ GarmentStylingAttached <=> StylingSet(wparams)
      /\ "maskExclusions" \in DOMAIN wpayload.virtualTryOnParams
            <=> ExclusionSet(wparams)
      /\ "imageGenerationConfig" \in DOMAIN wpayload <=> GenConfigSet(wparams)

\* C14 as amended: garmentStyling is attached if and only if the resolved
\* mask state is GARMENT and a styling field is set; maskExclusions and
\* imageGenerationConfig are attached if and only if one of their fields is
\* set to a non-default value; no attached sub-object is empty.
C14_NoEmptySubObject ==
    PayloadSent =>
      /\ GarmentStylingAttached
            <=> (wparams.mask_type = "GARMENT" /\ Blank(wparams.mask_prompt)
                   /\ StylingSet(wparams))
      /\ "maskExclusions" \in DOMAIN wpayload.virtualTryOnParams
            <=> ExclusionSet(wparams)
      /\ "imageGenerationConfig" \in DOMAIN wpayload <=> GenConfigSet(wparams)
      /\ GarmentStylingAttached
            => wpayload.virtualTryOnParams.garmentBasedMask.garmentStyling # EmptyDict
      /\ "maskExclusions" \in DOMAIN wpayload.virtualTryOnParams
            => wpayload.virtualTryOnParams.maskExclusions # EmptyDict
      /\ "imageGenerationConfig" \in DOMAIN wpayload
            => wpayload.imageGenerationConfig # EmptyDict

C14_Witness ==
    /\ PayloadSent
    /\ wparams.mask_type = "GARMENT" /\ Blank(wparams.mask_prompt)
    /\ ~StylingSet(wparams) /\ ExclusionSet(wparams) /\ ~GenConfigSet(wparams)
    /\ ~GarmentStylingAttached
    /\ DOMAIN wpayload.virtualTryOnParams.maskExclusions = {"preserveHands"}
    /\ "imageGenerationConfig" \notin DOMAIN wpayload

\* C15: pil_to_binary_mask maps every pixel to 255 if its tested value v (the
\* alpha channel of a 4-channel image, else the mean of the channels or the
\* raw grayscale value) is strictly greater than 128 and to 0 otherwise;
\* v = 128 maps to 0 and the output holds no value other than 0 and 255.
C15_BinaryThreshold ==
    upc = "binarized" =>
      /\ Len(umask.data) = Len(uimage.data)
      /\ \A k \in 1..Len(uimage.data) :
            LET px == uimage.data[k]
                out == umask.data[k][1]
                above == IF Len(px) = 4 THEN px[4] > 128
                         ELSE Sum(px) > 128 * Len(px)
                at == IF Len(px) = 4 THEN px[4] = 128
                      ELSE Sum(px) = 128 * Len(px)
            IN /\ out \in {0, 255}
               /\ out = 255 <=> above
               /\ at => out = 0

C15_Witness ==
    /\ upc = "binarized"
    /\ uimage.channels = 4
    /\ uimage.data[1] = <<255, 255, 255, 128>>
    /\ umask.data[1] = <<0>>

\* C16: translate_to_english never raises to its caller: when the remote call
\* raises, or returns a response without output or message, with empty
\* content or with content that has no text, it returns the input text
\* unchanged; it returns a different string only when the remote call
\* returned a text item.
C16_TranslateDegrades ==
    upc = "translated" =>
      LET resp == uoutcome.response
          hasText ==
            /\ ~uoutcome.raised
            /\ "output" \in DOMAIN resp
            /\ "message" \in DOMAIN resp.output
            /\ "content" \in DOMAIN resp.output.message
            /\ resp.output.message.content # <<>>
            /\ "text" \in DOMAIN resp.output.message.content[1]
      IN /\ ~uraised
         /\ ~IsNone(ureturned)
         /\ ~hasText => Val(ureturned) = utext
         /\ Val(ureturned) # utext => hasText

C16_Witness ==
    /\ upc = "translated"
    /\ utext = <<"x", " ">>
    /\ ~uoutcome.raised
    /\ uoutcome.response = [output |-> [message |-> EmptyDict]]
    /\ ureturned = Some(<<"x", " ">>)
    /\ ~uraised

\* a str that is missing or empty
NoPrompt(o) == IsNone(o) \/ Val(o) = <<>>

\* C17: a background-replacement or text-to-image request with an empty or
\* missing prompt is rejected, 422 at the API and statusCode 400 with "Prompt
\* is required" at the worker, before any storage read, translation call,
\* model invocation or unit submission is performed for it.
C17_EmptyPromptRejected ==
    /\ (req.op \in {"background", "model"} /\ NoPrompt(req.subject))
       => /\ pc = "done"
          /\ response.status_code = 422
          /\ attempts = <<>>
    /\ (gevent.key \in {"replace_background_params", "text_to_image_params"}
          /\ NoPrompt(Get(gevent, "prompt", Some(<<>>))))
       => /\ greads = <<>> /\ gtranslations = 0 /\ ginvocations = 0
          /\ gwrites = <<>>
          /\ gpc \in {"handler", "done"}
          /\ gpc = "done" => /\ gresponse.statusCode = 400
                             /\ gresponse.error = "Prompt is required"

C17_Witness ==
    /\ gpc = "done"
    /\ gevent.key = "replace_background_params"
    /\ gevent.prompt = Some(<<>>)
    /\ gevent.input_image_object_name = Some(<<"x">>)
    /\ gresponse.statusCode = 400
    /\ greads = <<>>

RequiredReadFailed(reads) ==
    \E k \in 1..Len(reads) : reads[k].required /\ ~reads[k].ok

\* C20: when the storage read of a required input image fails (VTO source or
\* reference image, background-replacement input image), the worker returns
\* a statusCode 500 failure for the whole operation and performs no model
\* invocation and no storage write.
C20_ReadFailureIsFailure ==
    /\ RequiredReadFailed(wreads)
       => /\ wpc = "done"
          /\ wresponse.statusCode = 500
          /\ winvocations = 0
          /\ wwrites = <<>>
    /\ RequiredReadFailed(greads)
       => /\ gpc = "done"
          /\ gresponse.statusCode = 500
          /\ ginvocations = 0
          /\ gwrites = <<>>

C20_Witness ==
    /\ wpc = "done"
    /\ Len(wreads) = 2 /\ wreads[1].ok /\ ~wreads[2].ok
    /\ wreads[2].name = "reference"
    /\ wresponse.statusCode = 500
    /\ winvocations = 0

\* the request has been answered, every unit of it was submitted and has been
\* processed, and no collaborator call failed or fell short
SettledWithoutFailure ==
    /\ pc = "done"
    /\ Configured
    /\ \A k \in 1..Len(attempts) : attempts[k].ok
    /\ AllProcessed
    /\ gpc = "idle"
    /\ ~gfailed

\* C18: for a parallel-family (nova2) request no dispatched unit payload has a
\* cfg_scale or quality key, and once the request's units have been processed
\* the log holds a record that the request's cfg_scale and quality were
\* ignored.
C18_Nova2DropsAndLogs ==
    /\ (req.op = "model" /\ req.model_id = "nova2")
       => \A k \in 1..Len(attempts) :
            /\ "cfg_scale" \notin DOMAIN attempts[k].payload
            /\ "quality" \notin DOMAIN attempts[k].payload
    /\ (req.op = "model" /\ req.model_id = "nova2" /\ SettledWithoutFailure
          /\ response.status = "accepted" /\ NamesMatchCount(req))
       => /\ "Ignoring cfg_scale parameter" \in glog
          /\ "Ignoring quality parameter" \in glog

\* C19: for a request answered "accepted" (text-to-image in either family,
\* nova2 image edit with N images and N names), if every collaborator call
\* succeeded, then once its units have been processed a stored artifact
\* exists under every object name returned in the response.
C19_AcceptedMeansStored ==
    (req.op \in {"model", "edit"} /\ SettledWithoutFailure
       /\ response.status = "accepted" /\ NamesMatchCount(req))
    => \A j \in 1..Len(Val(response.object_names)) :
          Val(response.object_names)[j] \in store

\* the event has none of the keys the handler knows
NoKnownKey(e) ==
    /\ e.test # Some("health_check")
    /\ IsNone(e.vto_params)
    /\ IsNone(e.replace_background_params)
    /\ IsNone(e.text_to_image_params)

\* no storage read, storage write or model invocation has been started
NothingStarted ==
    /\ wpc = "idle" /\ wreads = <<>> /\ wwrites = <<>> /\ winvocations = 0
    /\ gpc = "idle" /\ greads = <<>> /\ gwrites = <<>> /\ ginvocations = 0
    /\ gtranslations = 0

\* C21: an event with none of test == "health_check", vto_params,
\* replace_background_params, text_to_image_params is answered 400 with an
\* error body and starts no storage or model operation; an event with
\* several of them is served by one branch only, the first it has in that
\* order.
C21_HandlerDispatch ==
    /\ NoKnownKey(hevent) /\ hpc # "idle" =>
         /\ NothingStarted
         /\ hpc = "returned" =>
              hresponse.statusCode = 400 /\ hresponse.error # "none"
    /\ hevent.test = Some("health_check") =>
         /\ NothingStarted
         /\ hpc = "returned" => hresponse = Healthy
    /\ wpc # "idle" =>
         /\ hevent.test # Some("health_check")
         /\ ~IsNone(hevent.vto_params)
         /\ wparams = Val(hevent.vto_params)
         /\ gpc = "idle" /\ ginvocations = 0 /\ gwrites = <<>>
    /\ gpc # "idle" =>
         /\ hevent.test # Some("health_check")
         /\ IsNone(hevent.vto_params)
         /\ wpc = "idle" /\ winvocations = 0 /\ wwrites = <<>>
         /\ IF ~IsNone(hevent.replace_background_params)
            THEN gevent = Val(hevent.replace_background_params)
            ELSE /\ ~IsNone(hevent.text_to_image_params)
                 /\ gevent = Val(hevent.text_to_image_params)
    /\ hpc = "returned" /\ ~NoKnownKey(hevent)
         /\ hevent.test # Some("health_check") =>
         hresponse.error # "No recognized parameter type"

\* an event whose only params key is image_edit_params, and which carries a
\* test value other than "health_check", has been answered 400
C21_Witness ==
    /\ hpc = "returned"
    /\ NoKnownKey(hevent)
    /\ hevent.test = Some("other")
    /\ ~IsNone(hevent.image_edit_params)
    /\ hresponse.statusCode = 400
    /\ NothingStarted

\* C22: an image edit request whose height or width is not an allowed image
\* dimension (e.g. 999) is rejected with a 422 validation error and no unit
\* is submitted for it.
C22_EditSizeRejected ==
    (req.op = "edit" /\ ~validate_dimensions(req.height) /\ pc = "done")
    => /\ response.status_code = 422
       /\ attempts = <<>>

\* C23: with a non-empty allowed-domain list, a sign-up whose email has a
\* domain is let through, with response.autoConfirmUser = True, if and only
\* if the domain equals an entry of the list when both are compared without
\* regard to case; for every other domain the handler raises an exception
\* naming the domain and the allowed domains.
C23_DomainGate ==
    (spc = "done" /\ allowed_domains(sallowed) # <<>> /\ Len(Split(semail)) = 2)
    => LET domain == Split(semail)[2]
           allowed == allowed_domains(sallowed)
       IN
       IF \E d \in Members(allowed) : Lower(d) = Lower(domain)
       THEN sresult.kind = "returned" /\ sresult.autoConfirmUser
       ELSE /\ sresult.kind = "raised"
            /\ sresult.domain = Lower(domain)
            /\ sresult.allowed = allowed

\* the units submitted so far are those of positions 0, 1, 2, ... in order
InIndexOrder(calls) ==
    \A k \in 1..Len(calls) :
        IF IsParallel(req) THEN calls[k].payload.image_index = k - 1 ELSE k = 1

\* C24: within one request every unit is submitted at most once, a failed
\* submission included, and in increasing index order; a submission call
\* starts only when the one before it has returned or raised, so the calls
\* made grow by one finished call at a time.
C24_SequentialOnce ==
    /\ [](InIndexOrder(attempts) /\ Len(attempts) <= req.number_of_images)
    /\ [][attempts' # attempts /\ attempts' # <<>> =>
            /\ Len(attempts') = Len(attempts) + 1
            /\ SubSeq(attempts', 1, Len(attempts)) = attempts]_vars

\* the first of several units failed to be submitted and the second has
\* been submitted after it
C24_Witness ==
    /\ IsParallel(req)
    /\ Len(attempts) >= 2
    /\ ~attempts[1].ok
    /\ attempts[2].ok
    /\ attempts[2].payload.image_index = 1

\* the save calls unit k has made so far, wherever its instance is
WritesOf(k) ==
    IF gunit = k THEN gwrites
    ELSE IF k \in DOMAIN gparked THEN gparked[k].writes
    ELSE <<>>

\* the object names unit k has written, finished or not
KeysOf(k) ==
    {w.key : w \in {x \in gwritten : x.unit = k}}
    \cup {WritesOf(k)[j].key : j \in {i \in 1..Len(WritesOf(k)) : WritesOf(k)[i].ok}}

Distinct(names) ==
    \A i, j \in 1..Len(names) : names[i] = names[j] => i = j

\* C25: under every interleaving of the units of one parallel request with
\* pairwise distinct object_names, unit i makes at most one write and only
\* under request.object_names[i], so no two units write the same key, and a
\* step of one unit, failing or not, changes no other unit's writes.
C25_UnitsWriteApart ==
    /\ [](IsParallel(req) /\ ~IsNone(req.object_names)
            /\ Distinct(Val(req.object_names)) =>
          \A k \in 1..Len(attempts) :
            /\ KeysOf(k) \subseteq {Val(req.object_names)[k]}
            /\ Len(WritesOf(k)) <= 1
            /\ \A j \in 1..Len(attempts) :
                 j # k => KeysOf(j) \cap KeysOf(k) = {})
    /\ [][\A k \in 1..MaxImages :
            (KeysOf(k)' # KeysOf(k) /\ req' = req) => (k = gunit /\ gpc = "save")]_vars

\* two units of a request are in flight at once: the second has stored its
\* image while the first, started before it, waits, and the first's
\* invocation then fails
C25_Witness ==
    /\ req.op = "model" /\ IsParallel(req)
    /\ 2 \in gprocessed
    /\ [unit |-> 2, key |-> Val(req.object_names)[2]] \in gwritten
    /\ gunit = 1
    /\ gpc = "done"
    /\ gresponse.statusCode = 500
    /\ ginvocations = 1

\* the mask fields of the event are ones the API schema lets through:
\* a declared PROMPT comes with a mask_prompt that is not blank
MaskFieldsValidated(p) == p.mask_type = "PROMPT" => ~Blank(p.mask_prompt)

\* C26: whenever the maskType of a VTO payload built by process_vto_image is
\* PROMPT, the maskPrompt it carries is non-empty and not all whitespace, for
\* every declared mask_type and every mask_prompt the worker can receive.
C26_PromptMaskHasText ==
    (PayloadSent /\ MaskFieldsValidated(wparams)
       /\ wpayload.virtualTryOnParams.maskType = "PROMPT")
    => ~Blank(wpayload.virtualTryOnParams.promptBasedMask.maskPrompt)

MaskKeys == {"promptBasedMask", "garmentBasedMask", "imageBasedMask"}

\* the sub-object a maskType goes with
MaskKeyOf(mask_type) ==
    CASE mask_type = "PROMPT" -> "promptBasedMask"
      [] mask_type = "GARMENT" -> "garmentBasedMask"
      [] OTHER -> "imageBasedMask"

\* C27: every VTO payload process_vto_image passes to the model invocation
\* contains exactly one of promptBasedMask, garmentBasedMask, imageBasedMask,
\* the one that goes with the payload's maskType, and the sub-object holds
\* fields of its own strategy only.
C27_OneMaskStrategy ==
    PayloadSent =>
      LET vto == wpayload.virtualTryOnParams IN
      /\ vto.maskType \in MaskTypes
      /\ MaskKeys \cap DOMAIN vto = {MaskKeyOf(vto.maskType)}
      /\ vto.maskType = "PROMPT" =>
           DOMAIN vto.promptBasedMask \subseteq {"maskPrompt", "maskShape"}
      /\ vto.maskType = "GARMENT" =>
           DOMAIN vto.garmentBasedMask
             \subseteq {"garmentClass", "garmentStyling", "maskShape"}
      /\ vto.maskType = "IMAGE" => DOMAIN vto.imageBasedMask = {"maskImage"}

\* a payload with an explicit mask image is being sent
C27_Witness ==
    /\ PayloadSent
    /\ wpayload.virtualTryOnParams.maskType = "IMAGE"
    /\ "imageBasedMask" \in DOMAIN wpayload.virtualTryOnParams
    /\ wparams.mask_shape = "CONTOUR"
    /\ OptTruthy(wparams.long_sleeve_style)

Keys(writes) == {writes[j].key : j \in 1..Len(writes)}

Min(a, b) == IF a < b THEN a ELSE b

\* the save calls made so far follow the positions of the returned images:
\* image idx goes under names[idx], and no more calls are made than there
\* are returned images or names
WritesByPosition(writes, names, returned) ==
    /\ \A j \in 1..Len(writes) :
         /\ writes[j].image < Len(names)
         /\ writes[j].key = names[writes[j].image + 1]
         /\ \A i \in 1..Len(writes) : writes[i].image = writes[j].image => i = j
    /\ Keys(writes) \subseteq {names[k] : k \in 1..Len(names)}
    /\ Len(writes) <= Min(returned, Len(names))

NoKeyTwice(writes) ==
    \A i, j \in 1..Len(writes) : writes[i].key = writes[j].key => i = j

\* what the worker operation in progress has been given and has done
VtoSaving == wwrites # <<>>
GenSaving == gwrites # <<>>

\* C28 as stated: in every worker operation the image at position idx of the
\* model response is written only under object_names[idx]; the worker never
\* writes a key that is not in the unit's object_names, never writes one key
\* twice, and makes at most min(returned images, len(object_names)) writes.
C28_WritesByIndex ==
    /\ VtoSaving =>
         /\ WritesByPosition(wwrites, Val(wparams.object_names), wresult.images)
         /\ NoKeyTwice(wwrites)
    /\ GenSaving =>
         /\ WritesByPosition(gwrites, Val(gevent.object_names), gimages)
         /\ NoKeyTwice(gwrites)

\* C28, amended: the same, with a key written twice only if object_names
\* itself lists that name at two positions.
C28_WritesByIndexDistinct ==
    /\ VtoSaving =>
         /\ WritesByPosition(wwrites, Val(wparams.object_names), wresult.images)
         /\ Distinct(Val(wparams.object_names)) => NoKeyTwice(wwrites)
    /\ GenSaving =>
         /\ WritesByPosition(gwrites, Val(gevent.object_names), gimages)
         /\ Distinct(Val(gevent.object_names)) => NoKeyTwice(gwrites)

\* the model returned more images than the VTO event has names, and every
\* name has been written once
C28_Witness ==
    /\ wpc = "return"
    /\ ~IsNone(wparams.object_names)
    /\ Len(Val(wparams.object_names)) = 1
    /\ wresult.images = MaxWorkerImages
    /\ Len(wwrites) = 1
    /\ wwrites[1].image = 0

\* C29: process_vto_request and process_background_replacement return
\* statusCode 200 with status "completed" only if the model invocation for
\* the unit was made and returned without error; when payload composition or
\* the invocation fails they return a statusCode 500 failure.
C29_CompletedMeansGenerated ==
    /\ wpc = "done" /\ wreads # <<>> =>
         IF wresult.kind = "images"
         THEN wresponse.statusCode = 200 => winvocations = 1
         ELSE wresponse.statusCode = 500
    /\ gpc = "done" /\ family(gevent) = "background"
         /\ gresponse.statusCode = 200 => ginvocations = 1

\* C30: every unit the API layer submits is recognized by the worker: the
\* handler has a processing branch for each top-level payload key the
\* dispatch functions emit, so a unit submitted by the API is never answered
\* statusCode 400 "No recognized parameter type".
C30_SubmittedUnitsRecognised ==
    (gunit # 0 /\ gpc = "done")
    => ~(gresponse.statusCode = 400
         /\ gresponse.error = "No recognized parameter type")

====
